---- MODULE Spec2Model ----
(***************************************************************************)
(* Countdown-timer tool server: the in-memory timer store, the lifecycle   *)
(* engine (the one-second update loop), and the command service reached    *)
(* over POST /tools/*, POST /api/timers* and POST /mcp (tools/call).       *)
(*                                                                         *)
(* Node runs every handler and every setInterval callback as one           *)
(* macrotask; the only awaits inside startTimer/controlTimer are on the    *)
(* already-resolved promise of getTimerStatus, whose continuations are     *)
(* microtasks drained before the next macrotask.  Each handler and each    *)
(* pass of the update loop is therefore one atomic action.                 *)
(*                                                                         *)
(* The widget (the browser side) keeps its own copy of the timers, counts  *)
(* them down with its own one-second loop and reconciles with the server   *)
(* every two seconds.  Each of its functions runs up to its next await as  *)
(* one step; what it awaits (the answer of a fetch) is a message in net,   *)
(* and the code behind the await is another step.                          *)
(***************************************************************************)
EXTENDS Integers, Sequences, FiniteSets, TLC

\* ------------------------------------------------------------------ bounds
\* number of timers ever created (ids handed out by generateTimerId)
MaxTimers == 2
\* number of ticks applied (passes of the update loop and direct ticks)
MaxTicks == 2
\* number of passes of the update loop in the end-to-end scenario
MaxEngineTicks == 301
\* number of timers the widget creates on its own, the server being away
MaxLocalTimers == 1
\* number of fetch calls of the widget that await their answer at once, and
\* the number of them that one function of the widget has made
MaxInFlight == 2
MaxPerKind == 1
\* number of timers the widget has the server create
MaxWidgetTimers == 1
\* playNotificationSound calls counted per timer
MaxSounds == 2
\* number of sync requests that are told apart by the order of their issue
MaxSyncs == 2
\* number of timers the widget of web/src/timer-widget.ts creates
MaxBridgeTimers == 2

\* ------------------------------------------------- program constants
MAX_DURATION == 7200

\* ------------------------------------------------- JavaScript values
\* A durationSeconds / remainingSeconds value as it arrives in a JSON body:
\* k = "undefined" (property absent) or "number"; a number is i + f/2, so
\* f = 1 is a non-integer (Half(0) is 0.5).
Undefined == [k |-> "undefined", i |-> 0, f |-> 0]
Num(n) == [k |-> "number", i |-> n, f |-> 0]
Half(n) == [k |-> "number", i |-> n, f |-> 1]

IsInteger(v) == v.k = "number" /\ v.f = 0

\* v > n and v <= 0 in JavaScript: undefined converts to NaN, and every
\* comparison with NaN is false
GreaterThan(v, n) == v.k = "number" /\ (v.i > n \/ (v.i = n /\ v.f = 1))
LessOrEqualZero(v) == v.k = "number" /\ (v.i < 0 \/ (v.i = 0 /\ v.f = 0))
\* !v
Falsy(v) == v.k = "undefined" \/ (v.k = "number" /\ v.i = 0 /\ v.f = 0)
\* typeof v === "number"
TypeofNumber(v) == v.k = "number"
\* v-- on a number
Decrement(v) == [v EXCEPT !.i = @ - 1]

\* NaN, what arithmetic on undefined gives
NaN == [k |-> "NaN", i |-> 0, f |-> 0]
\* Math.floor(v / 60)
FloorDiv60(v) == IF v.k = "number" THEN Num(v.i \div 60) ELSE NaN
\* v % 60: the remainder takes the sign of v
Mod60(v) ==
    IF v.k # "number" THEN NaN
    ELSE IF v.i >= 0 THEN [v EXCEPT !.i = @ % 60]
    ELSE IF v.f = 0 THEN Num(0 - ((0 - v.i) % 60))
    ELSE Half(0 - ((0 - v.i - 1) % 60) - 1)

\* the durationSeconds values a request may carry
DurationInputs ==
    { Undefined, Num(-1), Num(0), Half(0), Num(1), Num(2),
      Num(MAX_DURATION), Num(MAX_DURATION + 1) }

\* name values: absent, blank, or a label; the requests of Spec carry none
NoName == [s |-> "<absent>", n |-> 0]
Blank == [s |-> "", n |-> 0]
Label(str) == [s |-> str, n |-> 0]
\* `Timer ${n}`
TimerN(n) == [s |-> "Timer ", n |-> n]
NameInputs == { NoName }

\* timer ids: 0 stands for a request without timerId
NoId == 0
TimerIds == 1..MaxTimers
IdInputs == 0..MaxTimers

\* completedAt of a timer that has none
NoTime == 0

Actions == { "pause", "resume", "stop" }
\* the action values a request may carry: absent, a verb, an unknown verb
NoAction == "<absent>"
ActionInputs == Actions \cup { "restart", NoAction }

\* POST /tools/*, POST /api/timers*, POST /mcp
Transports == { "rest", "api", "mcp" }

\* ids of timers the widget creates locally: `${name}-${Date.now()}`, never
\* an id of the server
LocalId(k) == 100 + k
LocalIds == { LocalId(k) : k \in 1..MaxLocalTimers }
WidgetIds == TimerIds \cup LocalIds
\* the durations the Start button and the presets let through: integers in
\* [1, 7200]
WidgetDurations == { Num(2) }

VARIABLES
    activeTimers,   \* Map<string, Timer> in insertion order
    timerHistory,   \* Timer[]
    nextId,         \* the id generateTimerId hands out next
    clock,          \* new Date(): one more with every tick applied
    last,           \* what the last operation answered
    localTimers,    \* widget: activeTimers, Map<string, Timer>
    localHistory,   \* widget: timerHistory
    timerPresets,   \* widget: the preset list shown
    updateInterval, \* widget: the one-second loop is running
    nextLocalId,    \* widget: the next id of a timer created locally
    net,            \* answers of fetch calls the widget still awaits
    notified,       \* playNotificationSound calls, counted per timer
    syncInterval,   \* widget: the handle of the two-second sync loop is set
    intervals,      \* browser: the setInterval timers that are live
    order,          \* sync requests issued, and the one reconciled last
    ui              \* what the last step of the widget did

\* the state of the server and the state of the widget
server == << activeTimers, timerHistory, nextId, clock, last >>
page == << syncInterval, order >>
widget ==
    << localTimers, localHistory, timerPresets, updateInterval, nextLocalId,
       net, notified, ui, intervals, page >>
vars == << server, widget >>

\* ------------------------------------------------------ Map helpers
Has(at, id) == \E i \in 1..Len(at) : at[i].id = id
Get(at, id) == at[CHOOSE i \in 1..Len(at) : at[i].id = id]
Put(at, t) ==
    IF Has(at, t.id)
    THEN [i \in 1..Len(at) |-> IF at[i].id = t.id THEN t ELSE at[i]]
    ELSE Append(at, t)
Delete(at, id) == SelectSeq(at, LAMBDA t : t.id # id)
Keys(at) == { at[i].id : i \in 1..Len(at) }
HistoryIds(th) == { th[i].id : i \in 1..Len(th) }

\* the result of a store operation: the boolean it returns and the store
Result(ok, at, th) == [ok |-> ok, at |-> at, th |-> th]

\* ------------------------------------------------------ Timer store
\* createTimer with the countdown left at 0 instead of durationSeconds
createTimer_ZeroRemaining(at, name, durationSeconds, id) ==
    Append(at, [ id |-> id,
                 name |-> IF name.s = "" THEN TimerN(Len(at) + 1) ELSE name,
                 durationSeconds |-> durationSeconds,
                 remainingSeconds |-> Num(0),
                 status |-> "running",
                 completedAt |-> NoTime ])

\* createTimer whose fallback name counts the timers without the new one
createTimer_CountWithoutNew(at, name, durationSeconds, id) ==
    Append(at, [ id |-> id,
                 name |-> IF name.s = "" THEN TimerN(Len(at)) ELSE name,
                 durationSeconds |-> durationSeconds,
                 remainingSeconds |-> durationSeconds,
                 status |-> "running",
                 completedAt |-> NoTime ])

\* createdAt is written once here and never read by the server: left out
createTimer(at, name, durationSeconds, id) ==
    Append(at, [ id |-> id,
                 name |-> IF name.s = "" THEN TimerN(Len(at) + 1) ELSE name,
                 durationSeconds |-> durationSeconds,
                 remainingSeconds |-> durationSeconds,
                 status |-> "running",
                 completedAt |-> NoTime ])

\* pauseTimer without the status test
pauseTimer_AnyStatus(at, th, id) ==
    IF Has(at, id)
    THEN Result(TRUE, Put(at, [Get(at, id) EXCEPT !.status = "paused"]), th)
    ELSE Result(FALSE, at, th)

pauseTimer(at, th, id) ==
    IF Has(at, id) /\ Get(at, id).status = "running"
    THEN Result(TRUE, Put(at, [Get(at, id) EXCEPT !.status = "paused"]), th)
    ELSE Result(FALSE, at, th)

\* resumeTimer that restarts the countdown from durationSeconds
resumeTimer_Restarts(at, th, id) ==
    IF Has(at, id) /\ Get(at, id).status = "paused"
    THEN Result(TRUE,
                Put(at, [Get(at, id) EXCEPT
                            !.status = "running",
                            !.remainingSeconds = Get(at, id).durationSeconds]),
                th)
    ELSE Result(FALSE, at, th)

resumeTimer(at, th, id) ==
    IF Has(at, id) /\ Get(at, id).status = "paused"
    THEN Result(TRUE, Put(at, [Get(at, id) EXCEPT !.status = "running"]), th)
    ELSE Result(FALSE, at, th)

\* stopTimer that accepts only a running timer
stopTimer_RunningOnly(at, th, id, now) ==
    IF Has(at, id) /\ Get(at, id).status = "running"
    THEN Result(TRUE, Delete(at, id),
                Append(th, [Get(at, id) EXCEPT !.status = "stopped",
                                               !.completedAt = now]))
    ELSE Result(FALSE, at, th)

\* stopTimer whose fall-through returns true
stopTimer_ReturnsTrue(at, th, id, now) ==
    IF Has(at, id) /\ Get(at, id).status \in {"running", "paused"}
    THEN Result(TRUE, Delete(at, id),
                Append(th, [Get(at, id) EXCEPT !.status = "stopped",
                                               !.completedAt = now]))
    ELSE Result(TRUE, at, th)

\* stopTimer without activeTimers.delete(timerId): a snapshot is pushed and
\* the timer stays where it was
stopTimer_NoDelete(at, th, id, now) ==
    IF Has(at, id) /\ Get(at, id).status \in {"running", "paused"}
    THEN Result(TRUE, at,
                Append(th, [Get(at, id) EXCEPT !.status = "stopped",
                                               !.completedAt = now]))
    ELSE Result(FALSE, at, th)

\* stopTimer that files the timer as completed
stopTimer_MarksCompleted(at, th, id, now) ==
    IF Has(at, id) /\ Get(at, id).status \in {"running", "paused"}
    THEN Result(TRUE, Delete(at, id),
                Append(th, [Get(at, id) EXCEPT !.status = "completed",
                                               !.completedAt = now]))
    ELSE Result(FALSE, at, th)

\* stopTimer with timerHistory.unshift in place of push
stopTimer_Unshift(at, th, id, now) ==
    IF Has(at, id) /\ Get(at, id).status \in {"running", "paused"}
    THEN Result(TRUE, Delete(at, id),
                << [Get(at, id) EXCEPT !.status = "stopped",
                                       !.completedAt = now] >> \o th)
    ELSE Result(FALSE, at, th)

stopTimer(at, th, id, now) ==
    IF Has(at, id) /\ Get(at, id).status \in {"running", "paused"}
    THEN Result(TRUE, Delete(at, id),
                Append(th, [Get(at, id) EXCEPT !.status = "stopped",
                                               !.completedAt = now]))
    ELSE Result(FALSE, at, th)

\* completeTimer without activeTimers.delete(timerId): a snapshot is pushed
\* and the timer stays where it was
completeTimer_NoDelete(at, th, id, now) ==
    IF Has(at, id) /\ Get(at, id).status = "running"
    THEN Result(TRUE, at,
                Append(th, [Get(at, id) EXCEPT !.status = "completed",
                                               !.remainingSeconds = Num(0),
                                               !.completedAt = now]))
    ELSE Result(FALSE, at, th)

\* completeTimer without the completedAt stamp
completeTimer_NoCompletedAt(at, th, id, now) ==
    IF Has(at, id) /\ Get(at, id).status = "running"
    THEN Result(TRUE, Delete(at, id),
                Append(th, [Get(at, id) EXCEPT !.status = "completed",
                                               !.remainingSeconds = Num(0)]))
    ELSE Result(FALSE, at, th)

completeTimer(at, th, id, now) ==
    IF Has(at, id) /\ Get(at, id).status = "running"
    THEN Result(TRUE, Delete(at, id),
                Append(th, [Get(at, id) EXCEPT !.status = "completed",
                                               !.remainingSeconds = Num(0),
                                               !.completedAt = now]))
    ELSE Result(FALSE, at, th)

\* updateTimer that completes only below zero (< in place of <=)
updateTimer_CompletesBelowZero(at, th, id, now) ==
    IF /\ Has(at, id)
       /\ Get(at, id).status = "running"
       /\ GreaterThan(Get(at, id).remainingSeconds, 0)
    THEN LET t == [Get(at, id) EXCEPT
                      !.remainingSeconds = Decrement(@)]
             at2 == Put(at, t)
         IN  IF LessOrEqualZero(t.remainingSeconds)
                /\ t.remainingSeconds # Num(0)
             THEN completeTimer(at2, th, id, now)
             ELSE Result(TRUE, at2, th)
    ELSE Result(FALSE, at, th)

updateTimer(at, th, id, now) ==
    IF /\ Has(at, id)
       /\ Get(at, id).status = "running"
       /\ GreaterThan(Get(at, id).remainingSeconds, 0)
    THEN LET t == [Get(at, id) EXCEPT
                      !.remainingSeconds = Decrement(@)]
             at2 == Put(at, t)
         IN  IF LessOrEqualZero(t.remainingSeconds)
             THEN completeTimer(at2, th, id, now)
             ELSE Result(TRUE, at2, th)
    ELSE Result(FALSE, at, th)

\* ------------------------------------------------------ Command service
\* startTimer with >= in place of > in the upper range check
startTimer_ExclusiveMax(at, name, durationSeconds, id) ==
    IF LessOrEqualZero(durationSeconds)
    THEN [ok |-> FALSE, at |-> at,
          error |-> "Duration must be greater than 0",
          minutesLeft |-> Undefined, secondsLeft |-> Undefined]
    ELSE IF GreaterThan(durationSeconds, MAX_DURATION - 1)
    THEN [ok |-> FALSE, at |-> at,
          error |-> "Duration cannot exceed 7200 seconds (2 hours)",
          minutesLeft |-> Undefined, secondsLeft |-> Undefined]
    ELSE LET at2 == createTimer(at, name, durationSeconds, id)
             timer == at2[Len(at2)]
         IN  [ok |-> TRUE, at |-> at2, error |-> "",
              minutesLeft |-> FloorDiv60(timer.remainingSeconds),
              secondsLeft |-> Mod60(timer.remainingSeconds)]

\* startTimer(name, durationSeconds): the two range checks throw into the
\* catch block, which answers with the error envelope
startTimer(at, name, durationSeconds, id) ==
    IF LessOrEqualZero(durationSeconds)
    THEN [ok |-> FALSE, at |-> at,
          error |-> "Duration must be greater than 0",
          minutesLeft |-> Undefined, secondsLeft |-> Undefined]
    ELSE IF GreaterThan(durationSeconds, MAX_DURATION)
    THEN [ok |-> FALSE, at |-> at,
          error |-> "Duration cannot exceed 7200 seconds (2 hours)",
          minutesLeft |-> Undefined, secondsLeft |-> Undefined]
    ELSE LET at2 == createTimer(at, name, durationSeconds, id)
             timer == at2[Len(at2)]
         IN  [ok |-> TRUE, at |-> at2, error |-> "",
              minutesLeft |-> FloorDiv60(timer.remainingSeconds),
              secondsLeft |-> Mod60(timer.remainingSeconds)]

\* controlTimer(timerId, action): a verb outside the switch leaves
\* success = false and message = ""
controlTimer(at, th, timerId, action, now) ==
    CASE action = "pause" -> pauseTimer(at, th, timerId)
      [] action = "resume" -> resumeTimer(at, th, timerId)
      [] action = "stop" -> stopTimer(at, th, timerId, now)
      [] OTHER -> Result(FALSE, at, th)

\* timerHistory.slice(-20)
HistoryWindow == 20
Slice(th) ==
    SubSeq(th, IF Len(th) > HistoryWindow THEN Len(th) - HistoryWindow + 1
               ELSE 1, Len(th))

\* the entry getTimerStatus reports for an active timer
StatusEntry(t) ==
    [ id |-> t.id, name |-> t.name,
      remainingSeconds |-> t.remainingSeconds, status |-> t.status,
      minutesLeft |-> FloorDiv60(t.remainingSeconds),
      secondsLeft |-> Mod60(t.remainingSeconds) ]

\* getTimerStatus that leaves paused timers out of its report
getTimerStatus_OmitsPaused(at, th) ==
    [ activeTimers |->
          LET running == SelectSeq(at, LAMBDA t : t.status = "running")
          IN  [i \in 1..Len(running) |-> StatusEntry(running[i])],
      history |-> Slice(th) ]

\* getTimerStatus(): structuredContent.activeTimers and .history
getTimerStatus(at, th) ==
    [ activeTimers |-> [i \in 1..Len(at) |-> StatusEntry(at[i])],
      history |-> Slice(th) ]

\* ------------------------------------------------------ returned values
\* A value handed to a caller is the store's own object: the Map, the array
\* or one Timer.  Nothing is copied on the way out.
Alias(what, id) == [alias |-> what, id |-> id]
\* getActiveTimers(): return activeTimers
getActiveTimers == Alias("activeTimers", NoId)
\* getTimerHistory(): return timerHistory
getTimerHistory == Alias("timerHistory", NoId)
\* createTimer: return timer, the object that was put into the Map
ReturnedTimer(id) == Alias("timer", id)

\* (timer as any)[field] = true: the object with one more property
SetProperty(t, field) ==
    [f \in DOMAIN t \cup {field} |-> IF f = field THEN TRUE ELSE t[f]]

\* what the caller of a getter or of createTimer can do with the value:
\* Map.clear(), Array.pop(), and setting a property of the Timer
Writes == { "clear", "pop", "_optimistic" }

\* the store after a caller's write to a returned value: the value being the
\* store's own object, the write lands in the store
WriteThrough(value, at, th, write) ==
    CASE value.alias = "activeTimers" /\ write = "clear" ->
             Result(TRUE, << >>, th)
      [] value.alias = "timerHistory" /\ write = "pop" /\ Len(th) > 0 ->
             Result(TRUE, at, SubSeq(th, 1, Len(th) - 1))
      [] value.alias = "timer" /\ write \notin {"clear", "pop"}
             /\ Has(at, value.id) ->
             Result(TRUE, Put(at, SetProperty(Get(at, value.id), write)), th)
      [] OTHER -> Result(FALSE, at, th)

\* createOptimisticTimer(name, durationSeconds): createTimer, then the marks
\* _optimistic and _createdAt set on the timer it returned
createOptimisticTimer(at, th, name, durationSeconds, id) ==
    LET at2 == createTimer(at, name, durationSeconds, id)
        timer == ReturnedTimer(id)
        marked == WriteThrough(timer, at2, th, "_optimistic")
    IN  WriteThrough(timer, marked.at, marked.th, "_createdAt")

\* const { name = "Timer", ... } = body
DefaultName(name) == IF name = NoName THEN Label("Timer") ELSE name

\* the route's own check in POST /tools/startTimer and POST /api/timers
RouteRejectsDuration(durationSeconds) ==
    Falsy(durationSeconds) \/ ~TypeofNumber(durationSeconds)

\* the route's own check in POST /tools/controlTimer
RestRejectsControl(timerId, action) ==
    timerId = NoId \/ action = NoAction

\* the route's own check in POST /api/timers/:timerId/control
ApiRejectsControl(action) ==
    action = NoAction \/ action \notin Actions

\* what a handler answers and the store it leaves: the HTTP status, the
\* error message ("" when the body has none), the boolean result and whether
\* the body carries a timestamp
Reply(http, error, ok, timestamp, at, th) ==
    [ http |-> http, error |-> error, ok |-> ok, timestamp |-> timestamp,
      at |-> at, th |-> th ]

\* the handler of a StartTimer request on transport via
StartTimerHandler(via, at, th, name, durationSeconds, id) ==
    IF via \in {"rest", "api"} /\ RouteRejectsDuration(durationSeconds)
    THEN Reply(400,
               "durationSeconds parameter is required and must be a number",
               FALSE, FALSE, at, th)
    ELSE LET r == startTimer(at, DefaultName(name), durationSeconds, id)
         IN  Reply(200, r.error, r.ok, TRUE, r.at, th)

\* the handler of a ControlTimer request on transport via
ControlTimerHandler(via, at, th, timerId, action, now) ==
    IF via = "rest" /\ RestRejectsControl(timerId, action)
    THEN Reply(400, "timerId and action parameters are required",
               FALSE, FALSE, at, th)
    ELSE IF via = "api" /\ ApiRejectsControl(action)
    THEN Reply(400,
               "action parameter is required and must be 'pause', 'resume', or 'stop'",
               FALSE, FALSE, at, th)
    ELSE LET r == controlTimer(at, th, timerId, action, now)
         IN  Reply(200, "", r.ok, TRUE, r.at, r.th)

\* ------------------------------------------------------ POST /mcp
\* the JSON-RPC methods the timer server answers
McpMethods ==
    { "initialize", "tools/list", "resources/list", "resources/read",
      "tools/call" }
\* the method a request may carry: one of these, an unknown one, none
NoMethod == "<absent>"
MethodInputs == McpMethods \cup { "ping", NoMethod }
\* the tools of tools/call
McpTools == { "startTimer", "controlTimer", "getTimerStatus" }
\* params.name of a tools/call: a timer tool, the tool of the top-movers
\* server, or a name no server knows
ToolInputs == McpTools \cup { "topMovers", "resetTimers" }
\* the uri of resources/read
WidgetUri == "ui://widget/timer.html"
UriInputs == { WidgetUri, "ui://widget/other.html" }

\* error.code of a JSON-RPC answer; 0 for an answer with a result
MethodNotFound == 0 - 32601
RpcReply(http, code, at, th) ==
    [ http |-> http, code |-> code, at |-> at, th |-> th ]

\* handleMcpRequest: the answer to a POST /mcp of the timer server and the
\* store it leaves; args are the arguments of a tools/call
handleMcpRequest(method, tool, uri, args, at, th, id, now) ==
    CASE method \in {"initialize", "tools/list", "resources/list"} ->
             RpcReply(200, 0, at, th)
      [] method = "resources/read" /\ uri = WidgetUri ->
             RpcReply(200, 0, at, th)
      [] method = "tools/call" /\ tool = "startTimer" ->
             LET r == StartTimerHandler("mcp", at, th, args.name,
                                        args.durationSeconds, id)
             IN  RpcReply(200, 0, r.at, r.th)
      [] method = "tools/call" /\ tool = "controlTimer" ->
             LET r == ControlTimerHandler("mcp", at, th, args.timerId,
                                          args.action, now)
             IN  RpcReply(200, 0, r.at, r.th)
      [] method = "tools/call" /\ tool = "getTimerStatus" ->
             RpcReply(200, 0, at, th)
      [] OTHER -> RpcReply(200, MethodNotFound, at, th)

\* POST /mcp of the top-movers server, which holds no timers
topMoversMcp(method, tool, at, th) ==
    IF method = "tools/call" /\ tool = "topMovers"
    THEN RpcReply(200, 0, at, th)
    ELSE RpcReply(400, MethodNotFound, at, th)

\* the part of a reply that is kept in last; op is "startTimer", the action
\* of a ControlTimer request, "updateTimer" or "loop"
Response(op, r) ==
    [ op |-> op, http |-> r.http, error |-> r.error, ok |-> r.ok,
      timestamp |-> r.timestamp ]

\* ------------------------------------------------------ initial state
Init ==
    /\ activeTimers = << >>
    /\ timerHistory = << >>
    /\ nextId = 1
    /\ clock = 1
    /\ last = [ op |-> "none", http |-> 0, error |-> "", ok |-> FALSE,
                timestamp |-> FALSE ]
    /\ localTimers = << >>
    /\ localHistory = << >>
    /\ timerPresets = "widget"
    /\ updateInterval = FALSE
    /\ nextLocalId = 1
    /\ net = {}
    /\ notified = [id \in WidgetIds |-> 0]
    /\ ui = [ rendered |-> TRUE, requests |-> 0 ]
    /\ syncInterval = TRUE
    /\ intervals = [ update |-> 0, sync |-> 1 ]
    /\ order = [ issued |-> 0, applied |-> 0 ]

\* ------------------------------------------------------ handlers
\* res.json(...) / res.status(400).json(...): the store the handler leaves
\* and the answer it sends
Respond(op, r) ==
    /\ activeTimers' = r.at
    /\ timerHistory' = r.th
    /\ last' = Response(op, r)
    /\ UNCHANGED widget

\* POST /tools/startTimer
PostToolsStartTimer(name, durationSeconds) ==
    LET r == StartTimerHandler("rest", activeTimers, timerHistory, name,
                               durationSeconds, nextId)
    IN  /\ r.ok => nextId <= MaxTimers
        /\ nextId' = IF r.ok THEN nextId + 1 ELSE nextId
        /\ Respond("startTimer", r)
        /\ UNCHANGED clock

\* POST /api/timers
PostApiTimers(name, durationSeconds) ==
    LET r == StartTimerHandler("api", activeTimers, timerHistory, name,
                               durationSeconds, nextId)
    IN  /\ r.ok => nextId <= MaxTimers
        /\ nextId' = IF r.ok THEN nextId + 1 ELSE nextId
        /\ Respond("startTimer", r)
        /\ UNCHANGED clock

\* POST /mcp, method tools/call, name startTimer
McpStartTimer(name, durationSeconds) ==
    LET r == StartTimerHandler("mcp", activeTimers, timerHistory, name,
                               durationSeconds, nextId)
    IN  /\ r.ok => nextId <= MaxTimers
        /\ nextId' = IF r.ok THEN nextId + 1 ELSE nextId
        /\ Respond("startTimer", r)
        /\ UNCHANGED clock

\* POST /tools/controlTimer
PostToolsControlTimer(timerId, action) ==
    LET r == ControlTimerHandler("rest", activeTimers, timerHistory, timerId,
                                 action, clock)
    IN  /\ Respond(action, r)
        /\ UNCHANGED << nextId, clock >>

\* POST /api/timers/:timerId/control (the id is a path segment, never absent)
PostApiTimersControl(timerId, action) ==
    LET r == ControlTimerHandler("api", activeTimers, timerHistory, timerId,
                                 action, clock)
    IN  /\ timerId # NoId
        /\ Respond(action, r)
        /\ UNCHANGED << nextId, clock >>

\* POST /mcp, method tools/call, name controlTimer
McpControlTimer(timerId, action) ==
    LET r == ControlTimerHandler("mcp", activeTimers, timerHistory, timerId,
                                 action, clock)
    IN  /\ Respond(action, r)
        /\ UNCHANGED << nextId, clock >>

\* a caller of the exported updateTimer(timerId): one tick of one timer
UpdateTimerCall(timerId) ==
    LET now == clock + 1
        r == updateTimer(activeTimers, timerHistory, timerId, now)
    IN  /\ clock <= MaxTicks
        /\ clock' = now
        /\ Respond("updateTimer", Reply(0, "", r.ok, FALSE, r.at, r.th))
        /\ UNCHANGED nextId

\* ------------------------------------------------------ lifecycle engine
\* for (const [timerId, timer] of activeTimers): a Map iterator visits the
\* entries in insertion order and skips an entry deleted before its turn
RECURSIVE LoopOver(_, _, _, _)
LoopOver_SkipsAfterDelete(ids, at, th, now) ==
    IF ids = << >>
    THEN Result(TRUE, at, th)
    ELSE LET timerId == Head(ids)
             r == IF Has(at, timerId) /\ Get(at, timerId).status = "running"
                  THEN updateTimer(at, th, timerId, now)
                  ELSE Result(FALSE, at, th)
             rest == IF Len(r.at) < Len(at) /\ Len(ids) > 1
                     THEN Tail(Tail(ids)) ELSE Tail(ids)
         IN  LoopOver(rest, r.at, r.th, now)

LoopOver(ids, at, th, now) ==
    IF ids = << >>
    THEN Result(TRUE, at, th)
    ELSE LET timerId == Head(ids)
             r == IF Has(at, timerId) /\ Get(at, timerId).status = "running"
                  THEN updateTimer(at, th, timerId, now)
                  ELSE Result(FALSE, at, th)
         IN  LoopOver(Tail(ids), r.at, r.th, now)

\* the setInterval callback of startTimerUpdateLoop, one second later
TimerUpdateLoop ==
    LET now == clock + 1
        r == LoopOver([i \in 1..Len(activeTimers) |-> activeTimers[i].id],
                      activeTimers, timerHistory, now)
    IN  /\ clock <= MaxTicks
        /\ clock' = now
        /\ Respond("loop", Reply(0, "", TRUE, FALSE, r.at, r.th))
        /\ UNCHANGED nextId

Next ==
    \/ \E name \in NameInputs, durationSeconds \in DurationInputs :
           PostToolsStartTimer(name, durationSeconds)
    \/ \E name \in NameInputs, durationSeconds \in DurationInputs :
           PostApiTimers(name, durationSeconds)
    \/ \E name \in NameInputs, durationSeconds \in DurationInputs :
           McpStartTimer(name, durationSeconds)
    \/ \E timerId \in IdInputs, action \in ActionInputs :
           PostToolsControlTimer(timerId, action)
    \/ \E timerId \in IdInputs, action \in ActionInputs :
           PostApiTimersControl(timerId, action)
    \/ \E timerId \in IdInputs, action \in ActionInputs :
           McpControlTimer(timerId, action)
    \/ \E timerId \in IdInputs : UpdateTimerCall(timerId)
    \/ TimerUpdateLoop

Spec == Init /\ [][Next]_vars

\* ------------------------------------------------------ end-to-end scenario
\* durationSeconds of the timers of the scenario
EndToEndDurations == { 1, 2, 61, 300 }

\* the setInterval callback, with the scenario's budget of passes
EngineTick ==
    LET now == clock + 1
        r == LoopOver([i \in 1..Len(activeTimers) |-> activeTimers[i].id],
                      activeTimers, timerHistory, now)
    IN  /\ clock <= MaxEngineTicks
        /\ clock' = now
        /\ Respond("loop", Reply(0, "", TRUE, FALSE, r.at, r.th))
        /\ UNCHANGED nextId

\* timers are started, over any transport, before the first pass of the
\* update loop, and from then on only the loop runs: no pause, no stop
NextEndToEnd ==
    \/ \E d \in EndToEndDurations :
           clock = 1 /\ PostToolsStartTimer(NoName, Num(d))
    \/ \E d \in EndToEndDurations :
           clock = 1 /\ PostApiTimers(NoName, Num(d))
    \/ \E d \in EndToEndDurations :
           clock = 1 /\ McpStartTimer(NoName, Num(d))
    \/ EngineTick

SpecEndToEnd == Init /\ [][NextEndToEnd]_vars

\* ------------------------------------------------------ names
\* the name values of a StartTimer request: absent, empty, a label
NameSamples == { NoName, Blank, Label("Coffee Break") }

\* the server with requests that carry every kind of name; durations and
\* verbs are valid ones
NextNames ==
    \/ \E name \in NameSamples, d \in { Num(1), Num(2) } :
           PostToolsStartTimer(name, d)
    \/ \E name \in NameSamples, d \in { Num(1), Num(2) } :
           PostApiTimers(name, d)
    \/ \E name \in NameSamples, d \in { Num(1), Num(2) } :
           McpStartTimer(name, d)
    \/ \E timerId \in TimerIds, action \in Actions :
           PostToolsControlTimer(timerId, action)
    \/ TimerUpdateLoop

SpecNames == Init /\ [][NextNames]_vars

\* ====================================================== widget
\* The answer of the server to a request of the widget travels in net; last
\* keeps the answer to the last request made by another client.
\* a - b on numbers; NaN when either side is undefined
Minus(a, b) ==
    IF a.k = "number" /\ b.k = "number"
    THEN LET h == (2 * a.i + a.f) - (2 * b.i + b.f)
         IN  [k |-> "number", i |-> h \div 2, f |-> h % 2]
    ELSE NaN
\* Math.max(0, v)
MaxZero(v) ==
    IF v.k # "number" THEN NaN
    ELSE IF LessOrEqualZero(v) THEN Num(0) ELSE v
\* Math.min(max, Math.max(n, 0))
Clamp(n, max) ==
    IF n.k # "number" \/ max.k # "number" THEN NaN
    ELSE IF GreaterThan(Minus(MaxZero(n), max), 0) THEN max ELSE MaxZero(n)
\* v || 0
OrZero(v) == IF Falsy(v) \/ v.k = "NaN" THEN Num(0) ELSE v

\* GET /api/timers: the body the server answers (name and createdAt, which
\* the widget only displays, are left out)
getApiTimers(at, th) ==
    [ activeTimers |->
          [i \in 1..Len(at) |->
              [ id |-> at[i].id,
                remainingSeconds |-> at[i].remainingSeconds,
                originalDuration |-> at[i].durationSeconds,
                status |-> at[i].status ]],
      history |-> Slice(th) ]

\* the widget's TimerHistory entry of a history entry of the server
LocalEntry(h) ==
    [ id |-> h.id, status |-> h.status,
      originalDuration |-> h.durationSeconds,
      elapsedSeconds |->
          Minus(h.durationSeconds, OrZero(h.remainingSeconds)) ]

\* the entry the widget writes for a timer it takes to be completed
CompletedEntry(t) ==
    [ id |-> t.id, status |-> "completed",
      originalDuration |-> t.originalDuration,
      elapsedSeconds |-> t.originalDuration ]

\* the entry the widget writes for a timer it stops on its own
StoppedEntry(t) ==
    [ id |-> t.id, status |-> "stopped",
      originalDuration |-> t.originalDuration,
      elapsedSeconds |->
          Clamp(Minus(t.originalDuration, MaxZero(t.remainingSeconds)),
                t.originalDuration) ]

\* playNotificationSound() once for each timer of done
Sound(counts, done) ==
    [id \in DOMAIN counts |->
        IF Has(done, id) /\ counts[id] < MaxSounds
        THEN counts[id] + 1 ELSE counts[id]]

\* A controlTimer call holds the Timer object t it read before its await.
\* While the object is in the Map the call sees it there (attached); when a
\* step takes the object out of the Map, by delete or by set of another
\* object, the call keeps the object as it was then (snap).
NoTimer ==
    [ id |-> NoId, remainingSeconds |-> Undefined, status |-> "none",
      originalDuration |-> Undefined ]
Detach(msgs, finals) ==
    { IF m.kind = "control" /\ m.attached /\ Has(finals, m.timerId)
      THEN [m EXCEPT !.attached = FALSE, !.snap = Get(finals, m.timerId)]
      ELSE m : m \in msgs }

\* syncWithServer, the local timers the fetch does not hold
Gone(local, fetched) == SelectSeq(local, LAMBDA t : ~Has(fetched, t.id))

Done_AlsoPaused(local, fetched) == Gone(local, fetched)

\* syncWithServer, those of them it takes to be completed: the running ones
Done(local, fetched) ==
    SelectSeq(Gone(local, fetched), LAMBDA t : t.status = "running")

Overwritten_RemainingOnly(t, fetched) ==
    t.remainingSeconds # Get(fetched, t.id).remainingSeconds

\* syncWithServer, whether the fetched timer is set in place of the local t
Overwritten(t, fetched) ==
    \/ t.remainingSeconds # Get(fetched, t.id).remainingSeconds
    \/ t.status # Get(fetched, t.id).status

\* syncWithServer behind its awaits: the history is replaced by the fetched
\* one; a local timer the fetch does not hold is deleted, with a completed
\* entry and a sound if it was running; a fetched timer replaces the local
\* one when remainingSeconds or status differ and is added when there is
\* none.  replaced are the objects that left the Map.
Reconcile(local, history, data) ==
    LET fetched == data.activeTimers
        done == Done(local, fetched)
        kept == SelectSeq(local, LAMBDA t : Has(fetched, t.id))
        added == SelectSeq(fetched, LAMBDA t : ~Has(local, t.id))
    IN  [ timers |->
              [i \in 1..Len(kept) |->
                  IF Overwritten(kept[i], fetched)
                  THEN Get(fetched, kept[i].id)
                  ELSE kept[i]] \o added,
          history |->
              [i \in 1..Len(data.history) |-> LocalEntry(data.history[i])]
              \o [i \in 1..Len(done) |-> CompletedEntry(done[i])],
          done |-> done,
          replaced |->
              Gone(local, fetched)
              \o SelectSeq(kept, LAMBDA t : Overwritten(t, fetched)) ]

Ticked_AnyStatus(t) ==
    [t EXCEPT !.remainingSeconds = MaxZero(Decrement(@))]

\* the callback of startUpdateLoop, for one timer: a running one loses a
\* second, not below 0
Ticked(t) ==
    IF t.status = "running"
    THEN [t EXCEPT !.remainingSeconds = MaxZero(Decrement(@))]
    ELSE t

\* the callback of startUpdateLoop: every running timer is ticked, and one
\* that is at 0 is deleted, with a completed entry and a sound
Countdown(local, history) ==
    LET ticked == [i \in 1..Len(local) |-> Ticked(local[i])]
        atZero(t) == t.status = "running" /\ t.remainingSeconds = Num(0)
        done == SelectSeq(ticked, atZero)
    IN  [ timers |-> SelectSeq(ticked, LAMBDA t : ~atZero(t)),
          history |->
              history \o [i \in 1..Len(done) |-> CompletedEntry(done[i])],
          done |-> done,
          replaced |->
              [i \in 1..Len(done) |->
                  [done[i] EXCEPT !.status = "completed"]] ]

\* the local fallback of controlTimer, applied to the object t the call
\* holds: the object in the Map when attached, the kept one otherwise
Fallback(local, history, m) ==
    LET t == IF m.attached THEN Get(local, m.timerId) ELSE m.snap
        put(t2) == IF m.attached THEN Put(local, t2) ELSE local
    IN  CASE m.action = "pause" ->
                 [ timers |-> put([t EXCEPT !.status = "paused"]),
                   history |-> history, replaced |-> << >> ]
          [] m.action = "resume" ->
                 [ timers |-> put([t EXCEPT !.status = "running"]),
                   history |-> history, replaced |-> << >> ]
          [] m.action = "stop" ->
                 [ timers |-> Delete(local, m.timerId),
                   history |-> Append(history, StoppedEntry(t)),
                   replaced |->
                       IF m.attached
                       THEN << [t EXCEPT !.status = "stopped"] >>
                       ELSE SelectSeq(local, LAMBDA x : x.id = m.timerId) ]

\* a function of the widget may send a request: the calls that await their
\* answer are within the bounds
MaySend(kind) ==
    /\ Cardinality(net) < MaxInFlight
    /\ Cardinality({ m \in net : m.kind = kind }) < MaxPerKind

\* what a step of the widget did: whether it rendered, and the number of
\* requests it sent
Did(rendered, requests) ==
    [ rendered |-> rendered, requests |-> requests ]

\* startUpdateLoop(): a new interval unless the handle is set
LiveAfterStart_NoGuard(handle, live) == [live EXCEPT !.update = @ + 1]

LiveAfterStart(handle, live) ==
    IF handle THEN live ELSE [live EXCEPT !.update = @ + 1]

\* startUpdateLoop() of the callTool widget: the interval of the handle is
\* cleared, then a new one is set
RestartUpdateLoop(handle, live) ==
    [live EXCEPT !.update = (IF handle THEN @ - 1 ELSE @) + 1]

LiveAfterStop_KeepsInterval(timers, handle, live) == live

\* maybeStopLoop(): clearInterval of the handle when no timer is left
LiveAfterStop(timers, handle, live) ==
    IF Len(timers) = 0 /\ handle THEN [live EXCEPT !.update = @ - 1]
    ELSE live

\* maybeStopLoop(): the loop is cleared when no timer is left
MaybeStopLoop(timers, running) == running /\ Len(timers) > 0

\* ------------------------------------------------------ widget: sync
\* syncWithServer up to the answer of GET /api/timers
SyncFetch ==
    /\ intervals.sync > 0
    /\ MaySend("sync")
    /\ net' = net \cup
           { [ kind |-> "sync",
               data |-> getApiTimers(activeTimers, timerHistory) ] }
    /\ ui' = Did(FALSE, 1)
    /\ UNCHANGED << server, localTimers, localHistory, timerPresets,
                    updateInterval, nextLocalId, notified, intervals, page >>

SyncFails_DropsTimers ==
    /\ intervals.sync > 0
    /\ ui' = Did(FALSE, 1)
    /\ localTimers' = << >>
    /\ UNCHANGED << server, localHistory, timerPresets, updateInterval,
                    nextLocalId, net, notified, intervals, page >>

\* syncWithServer whose fetch fails, is answered with a status that is not
\* OK, or has a body response.json() cannot parse: a warning, nothing else
SyncFails ==
    /\ intervals.sync > 0
    /\ ui' = Did(FALSE, 1)
    /\ UNCHANGED << server, localTimers, localHistory, timerPresets,
                    updateInterval, nextLocalId, net, notified, intervals,
                    page >>

\* syncWithServer behind response.json()
SyncApply(m) ==
    LET r == Reconcile(localTimers, localHistory, m.data)
    IN  /\ m \in net /\ m.kind = "sync"
        /\ timerPresets' = "server"
        /\ localTimers' = r.timers
        /\ localHistory' = r.history
        /\ notified' = Sound(notified, r.done)
        /\ net' = Detach(net \ {m}, r.replaced)
        /\ ui' = Did(TRUE, 0)
        /\ UNCHANGED << server, updateInterval, nextLocalId, intervals, page >>

\* ------------------------------------------------------ widget: create
\* callTimer up to the answer of POST /api/timers, which the server handles
CallTimerClick(durationSeconds) ==
    LET r == StartTimerHandler("api", activeTimers, timerHistory,
                               Label("Coffee Break"), durationSeconds,
                               nextId)
    IN  /\ MaySend("create")
        /\ r.ok => nextId <= MaxWidgetTimers
        /\ activeTimers' = r.at
        /\ timerHistory' = r.th
        /\ nextId' = IF r.ok THEN nextId + 1 ELSE nextId
        /\ net' = net \cup
               { [ kind |-> "create", ok |-> r.http = 200,
                   timer |-> IF r.ok
                             THEN [ id |-> nextId,
                                    totalDuration |->
                                        Get(r.at, nextId).durationSeconds ]
                             ELSE [ id |-> NoId, totalDuration |-> Undefined ],
                   durationSeconds |-> durationSeconds ] }
        /\ ui' = Did(FALSE, 1)
        /\ UNCHANGED << clock, last, localTimers, localHistory,
                        timerPresets, updateInterval, nextLocalId, notified,
                        intervals, page >>

\* the local timers still to be created by calls whose fetch failed
PendingLocal ==
    Cardinality({ m \in net : m.kind = "create" /\ ~m.ok })

\* callTimer whose fetch fails or is answered with a status that is not OK:
\* the server has not created a timer
CallTimerFails(durationSeconds) ==
    /\ MaySend("create")
    /\ nextLocalId + PendingLocal <= MaxLocalTimers
    /\ net' = net \cup
           { [ kind |-> "create", ok |-> FALSE,
               timer |-> [ id |-> NoId, totalDuration |-> Undefined ],
               durationSeconds |-> durationSeconds ] }
    /\ ui' = Did(FALSE, 1)
    /\ UNCHANGED << server, localTimers, localHistory, timerPresets,
                    updateInterval, nextLocalId, notified, intervals, page >>

NewTimer_Paused(m, localId) ==
    [ id |-> IF m.ok /\ m.timer.id # NoId THEN m.timer.id ELSE localId,
      remainingSeconds |-> m.durationSeconds, status |-> "paused",
      originalDuration |-> m.durationSeconds ]

\* callTimer, the timer it sets: the one of the server's answer, or a local
\* one under localId when there is no such answer
NewTimer(m, localId) ==
    LET total == IF Falsy(m.timer.totalDuration) THEN m.durationSeconds
                 ELSE m.timer.totalDuration
    IN  IF m.ok /\ m.timer.id # NoId
        THEN [ id |-> m.timer.id, remainingSeconds |-> total,
               status |-> "running", originalDuration |-> total ]
        ELSE [ id |-> localId, remainingSeconds |-> m.durationSeconds,
               status |-> "running",
               originalDuration |-> m.durationSeconds ]

\* callTimer behind its await
CallTimerApply(m) ==
    LET t == NewTimer(m, LocalId(nextLocalId))
    IN  /\ m \in net /\ m.kind = "create"
        /\ localTimers' = Put(localTimers, t)
        /\ nextLocalId' = IF t.id \in LocalIds THEN nextLocalId + 1
                          ELSE nextLocalId
        /\ updateInterval' = TRUE
        /\ intervals' = LiveAfterStart(updateInterval, intervals)
        /\ net' = Detach(net \ {m},
                         SelectSeq(localTimers, LAMBDA x : x.id = t.id))
        /\ ui' = Did(TRUE, 0)
        /\ UNCHANGED << server, localHistory, timerPresets, notified, page >>

\* ------------------------------------------------------ widget: control
\* the buttons of a timer card: pause or resume, by its status, and stop
Buttons(t) ==
    { IF t.status = "running" THEN "pause" ELSE "resume", "stop" }

\* controlTimer up to the answer of POST /api/timers/:timerId/control,
\* which the server handles
ControlTimerClick(timerId, action) ==
    LET r == ControlTimerHandler("api", activeTimers, timerHistory, timerId,
                                 action, clock)
    IN  /\ Has(localTimers, timerId)
        /\ action \in Buttons(Get(localTimers, timerId))
        /\ MaySend("control")
        /\ activeTimers' = r.at
        /\ timerHistory' = r.th
        /\ net' = net \cup
               { [ kind |-> "control", ok |-> r.http = 200,
                   timerId |-> timerId, action |-> action,
                   attached |-> TRUE, snap |-> NoTimer ] }
        /\ ui' = Did(FALSE, 1)
        /\ UNCHANGED << nextId, clock, last, localTimers, localHistory,
                        timerPresets, updateInterval, nextLocalId, notified,
                        intervals, page >>

\* controlTimer whose fetch fails or is answered with a status that is not
\* OK: the server has not acted
ControlTimerFails(timerId, action) ==
    /\ Has(localTimers, timerId)
    /\ action \in Buttons(Get(localTimers, timerId))
    /\ MaySend("control")
    /\ net' = net \cup
           { [ kind |-> "control", ok |-> FALSE,
               timerId |-> timerId, action |-> action,
               attached |-> TRUE, snap |-> NoTimer ] }
    /\ ui' = Did(FALSE, 1)
    /\ UNCHANGED << server, localTimers, localHistory, timerPresets,
                    updateInterval, nextLocalId, notified, intervals, page >>

\* controlTimer behind its await: nothing when the server answered OK, the
\* local fallback otherwise
ControlTimerApply(m) ==
    LET r == Fallback(localTimers, localHistory, m)
    IN  /\ m \in net /\ m.kind = "control"
        /\ IF m.ok
           THEN /\ net' = net \ {m}
                /\ ui' = Did(FALSE, 0)
                /\ UNCHANGED << localTimers, localHistory, updateInterval,
                                intervals >>
           ELSE /\ localTimers' = r.timers
                /\ localHistory' = r.history
                /\ updateInterval' = MaybeStopLoop(r.timers, updateInterval)
                /\ intervals' = LiveAfterStop(r.timers, updateInterval,
                                              intervals)
                /\ net' = Detach(net \ {m}, r.replaced)
                /\ ui' = Did(TRUE, 0)
        /\ UNCHANGED << server, timerPresets, nextLocalId, notified, page >>

\* ------------------------------------------------------ widget: countdown
\* the setInterval callback of startUpdateLoop
LocalTick ==
    LET r == Countdown(localTimers, localHistory)
    IN  /\ intervals.update > 0
        /\ localTimers' = r.timers
        /\ localHistory' = r.history
        /\ notified' = Sound(notified, r.done)
        /\ updateInterval' = MaybeStopLoop(r.timers, updateInterval)
        /\ intervals' = LiveAfterStop(r.timers, updateInterval, intervals)
        /\ net' = Detach(net, r.replaced)
        /\ ui' = Did(TRUE, 0)
        /\ UNCHANGED << server, timerPresets, nextLocalId, page >>

\* the widget next to its server: the server's update loop, and every step
\* of the widget
NextWidget ==
    \/ TimerUpdateLoop
    \/ SyncFetch
    \/ SyncFails
    \/ \E m \in net : SyncApply(m)
    \/ \E d \in WidgetDurations : CallTimerClick(d)
    \/ \E d \in WidgetDurations : CallTimerFails(d)
    \/ \E m \in net : CallTimerApply(m)
    \/ \E timerId \in WidgetIds, action \in Actions :
           ControlTimerClick(timerId, action)
    \/ \E timerId \in WidgetIds, action \in Actions :
           ControlTimerFails(timerId, action)
    \/ \E m \in net : ControlTimerApply(m)
    \/ LocalTick

SpecWidget == Init /\ [][NextWidget]_vars

\* ------------------------------------------------------ widget: sync order
\* The sync interval fires whether or not the fetch of an earlier firing
\* has been answered.  Here the requests carry the number of their issue,
\* which the widget does not keep, and order records the number of the
\* answer reconciled last.
SyncFetchNumbered ==
    /\ intervals.sync > 0
    /\ Cardinality(net) < MaxInFlight
    /\ order.issued < MaxSyncs
    /\ net' = net \cup
           { [ kind |-> "sync",
               data |-> getApiTimers(activeTimers, timerHistory),
               issued |-> order.issued + 1 ] }
    /\ order' = [order EXCEPT !.issued = @ + 1]
    /\ ui' = Did(FALSE, 1)
    /\ UNCHANGED << server, localTimers, localHistory, timerPresets,
                    updateInterval, nextLocalId, notified, intervals,
                    syncInterval >>

SyncApplyNumbered(m) ==
    LET r == Reconcile(localTimers, localHistory, m.data)
    IN  /\ m \in net /\ m.kind = "sync"
        /\ timerPresets' = "server"
        /\ localTimers' = r.timers
        /\ localHistory' = r.history
        /\ notified' = Sound(notified, r.done)
        /\ net' = Detach(net \ {m}, r.replaced)
        /\ order' = [order EXCEPT !.applied = m.issued]
        /\ ui' = Did(TRUE, 0)
        /\ UNCHANGED << server, updateInterval, nextLocalId, intervals,
                        syncInterval >>

NextSyncOrder ==
    \/ TimerUpdateLoop
    \/ SyncFetchNumbered
    \/ \E m \in net : SyncApplyNumbered(m)
    \/ \E d \in WidgetDurations : CallTimerClick(d)
    \/ \E m \in net : CallTimerApply(m)
    \/ LocalTick

SpecSyncOrder == Init /\ [][NextSyncOrder]_vars

\* ------------------------------------------------------ fair update loop
\* The setInterval callback of startTimerUpdateLoop fires again and again.
\* The clock stops counting behind MaxTicks passes; the passes go on.
LiveDurations == { Undefined, Half(0), Num(1), Num(2) }

LiveTick ==
    LET now == IF clock <= MaxTicks THEN clock + 1 ELSE clock
        r == LoopOver([i \in 1..Len(activeTimers) |-> activeTimers[i].id],
                      activeTimers, timerHistory, now)
    IN  /\ clock' = now
        /\ Respond("loop", Reply(0, "", TRUE, FALSE, r.at, r.th))
        /\ UNCHANGED nextId

NextLive ==
    \/ \E durationSeconds \in LiveDurations :
           McpStartTimer(NoName, durationSeconds)
    \/ \E timerId \in TimerIds, action \in Actions :
           McpControlTimer(timerId, action)
    \/ LiveTick

SpecLive == Init /\ [][NextLive]_vars /\ WF_vars(LiveTick)

\* ====================================================== timer-widget.ts
\* The widget of web/src/timer-widget.ts has no server: callTimer and
\* controlTimer act on the local Map at once, the loop is the one above, and
\* window.timerApp lets the chat create, update and stop timers.  Nothing
\* in it awaits, so every call is one step.
\*
\* Names are numbered; the id `${name}-${Date.now()}` of the k-th created
\* timer is BridgeId(name, k), and an id given by the caller starts with no
\* name.
BridgeNames == { 1, 2 }
BridgeId(name, k) == 100 * name + k
GeneratedIds ==
    { BridgeId(name, k) : name \in BridgeNames, k \in 1..MaxBridgeTimers }
ExternalIds == { 301 }
BridgeIds == GeneratedIds \cup ExternalIds
\* k.startsWith(`${name}-`)
StartsWith(id, name) == id \in GeneratedIds /\ id \div 100 = name
BridgeDurations == { Num(0), Num(1), Num(2) }
NoStatus == "<absent>"
StatusInputs == { NoStatus, "running", "paused", "stopped", "completed" }
RemainingInputs == { Undefined, Num(0), Num(1) }

InitBridge ==
    /\ activeTimers = << >>
    /\ timerHistory = << >>
    /\ nextId = 1
    /\ clock = 1
    /\ last = [ op |-> "none", http |-> 0, error |-> "", ok |-> FALSE,
                timestamp |-> FALSE ]
    /\ localTimers = << >>
    /\ localHistory = << >>
    /\ timerPresets = "widget"
    /\ updateInterval = FALSE
    /\ nextLocalId = 1
    /\ net = {}
    /\ notified = [id \in BridgeIds |-> 0]
    /\ ui = [ rendered |-> TRUE, requests |-> 0 ]
    /\ syncInterval = FALSE
    /\ intervals = [ update |-> 0, sync |-> 0 ]
    /\ order = [ issued |-> 0, applied |-> 0 ]

\* callTimer(name, durationSeconds): the Map after it
callTimerLocal(local, name, durationSeconds, k) ==
    Put(local, [ id |-> BridgeId(name, k),
                 remainingSeconds |-> durationSeconds,
                 status |-> "running",
                 originalDuration |-> durationSeconds ])

\* the then-callback of upsertExternalTimer: the first key that starts with
\* the name is taken for the timer just created; its timer is deleted and
\* set again under the id given
Rekey(local, name, id) ==
    LET tempId == local[CHOOSE i \in 1..Len(local) :
                            /\ StartsWith(local[i].id, name)
                            /\ \A j \in 1..Len(local) :
                                   StartsWith(local[j].id, name) => i <= j].id
        t == Get(local, tempId)
    IN  Put(Delete(local, tempId), [t EXCEPT !.id = id])

\* upsertExternalTimer(args): the Map after it and after its then-callback
upsertExternalTimer(local, id, name, durationSeconds, k) ==
    IF ~Has(local, IF id = NoId THEN BridgeId(name, k) ELSE id)
    THEN LET created == callTimerLocal(local, name, durationSeconds, k)
         IN  IF id # NoId THEN Rekey(created, name, id) ELSE created
    ELSE LET t == Get(local, id)
             r == MaxZero(durationSeconds)
         IN  Put(local, [t EXCEPT !.remainingSeconds = r,
                                  !.status = IF GreaterThan(r, 0)
                                             THEN "running"
                                             ELSE "completed"])

\* the Start button and the preset buttons
BridgeCallTimer(name, durationSeconds) ==
    /\ nextLocalId <= MaxBridgeTimers
    /\ GreaterThan(durationSeconds, 0)
    /\ localTimers' =
           callTimerLocal(localTimers, name, durationSeconds, nextLocalId)
    /\ nextLocalId' = nextLocalId + 1
    /\ updateInterval' = TRUE
    /\ intervals' = LiveAfterStart(updateInterval, intervals)
    /\ ui' = Did(TRUE, 0)
    /\ UNCHANGED << server, localHistory, timerPresets, net, notified, page >>

\* window.timerApp.create
TimerAppCreate(id, name, durationSeconds) ==
    LET fresh == ~Has(localTimers,
                      IF id = NoId THEN BridgeId(name, nextLocalId) ELSE id)
    IN  /\ fresh => nextLocalId <= MaxBridgeTimers
        /\ localTimers' = upsertExternalTimer(localTimers, id, name,
                                              durationSeconds, nextLocalId)
        /\ nextLocalId' = IF fresh THEN nextLocalId + 1 ELSE nextLocalId
        /\ updateInterval' = (fresh \/ updateInterval)
        /\ intervals' = IF fresh
                        THEN LiveAfterStart(updateInterval, intervals)
                        ELSE intervals
        /\ ui' = Did(TRUE, 0)
        /\ UNCHANGED << server, localHistory, timerPresets, net, notified,
                        page >>

\* window.timerApp.update
TimerAppUpdate(id, remainingSeconds, status) ==
    LET t0 == Get(localTimers, id)
        t1 == IF TypeofNumber(remainingSeconds)
              THEN [t0 EXCEPT !.remainingSeconds = MaxZero(remainingSeconds)]
              ELSE t0
        t == IF status # NoStatus THEN [t1 EXCEPT !.status = status] ELSE t1
        over == t.status = "completed" \/ t.remainingSeconds = Num(0)
        timers == IF over THEN Delete(localTimers, id)
                  ELSE Put(localTimers, t)
    IN  /\ Has(localTimers, id)
        /\ localTimers' = timers
        /\ localHistory' = IF over
                           THEN Append(localHistory, CompletedEntry(t))
                           ELSE localHistory
        /\ notified' = IF over THEN Sound(notified, << t >>) ELSE notified
        /\ updateInterval' = MaybeStopLoop(timers, updateInterval)
        /\ intervals' = LiveAfterStop(timers, updateInterval, intervals)
        /\ ui' = Did(TRUE, 0)
        /\ UNCHANGED << server, timerPresets, nextLocalId, net, page >>

\* controlTimer(timerId, action), from the buttons of a timer card and from
\* window.timerApp.stop
BridgeControlTimer(timerId, action) ==
    LET r == Fallback(localTimers, localHistory,
                      [ timerId |-> timerId, action |-> action,
                        attached |-> TRUE, snap |-> NoTimer ])
    IN  /\ Has(localTimers, timerId)
        /\ localTimers' = r.timers
        /\ localHistory' = r.history
        /\ updateInterval' = MaybeStopLoop(r.timers, updateInterval)
        /\ intervals' = LiveAfterStop(r.timers, updateInterval, intervals)
        /\ ui' = Did(TRUE, 0)
        /\ UNCHANGED << server, timerPresets, nextLocalId, net, notified,
                        page >>

NextBridge ==
    \/ \E name \in BridgeNames, d \in BridgeDurations :
           BridgeCallTimer(name, d)
    \/ \E id \in ExternalIds \cup {NoId}, name \in BridgeNames,
          d \in BridgeDurations : TimerAppCreate(id, name, d)
    \/ \E id \in BridgeIds, r \in RemainingInputs, status \in StatusInputs :
           TimerAppUpdate(id, r, status)
    \/ \E id \in BridgeIds, action \in Actions :
           BridgeControlTimer(id, action)
    \/ LocalTick

SpecBridge == InitBridge /\ [][NextBridge]_vars

\* ====================================================== properties
\* the ids handed out so far: every timer ever created
Created == 1..(nextId - 1)
\* the history entries of one timer
EntriesOf(th, id) == { i \in 1..Len(th) : th[i].id = id }
\* an integer in [1, 7200]
ValidDuration(v) == IsInteger(v) /\ v.i >= 1 /\ v.i <= MAX_DURATION
\* valid durations a StartTimer request is tried with
ValidDurationSample ==
    { Num(1), Num(2), Num(59), Num(60), Num(61), Num(300), Num(3600),
      Num(MAX_DURATION - 1), Num(MAX_DURATION) }

\* C1: every timer ever created is in exactly one of the active set and the
\* history log; active timers are running or paused, history entries are
\* stopped or completed, and no id is held twice.
C1_ExactlyOneCollection ==
    /\ \A i \in 1..Len(activeTimers) :
           activeTimers[i].status \in {"running", "paused"}
    /\ \A i \in 1..Len(timerHistory) :
           timerHistory[i].status \in {"stopped", "completed"}
    /\ \A id \in Created :
           (id \in Keys(activeTimers)) # (id \in HistoryIds(timerHistory))
    /\ Keys(activeTimers) \cup HistoryIds(timerHistory) = Created
    /\ Cardinality(Keys(activeTimers)) = Len(activeTimers)
    /\ Cardinality(HistoryIds(timerHistory)) = Len(timerHistory)

\* one timer paused in the active set, another completed in the history
C1_Witness ==
    /\ \E i \in 1..Len(activeTimers) : activeTimers[i].status = "paused"
    /\ \E i \in 1..Len(timerHistory) : timerHistory[i].status = "completed"

\* C2: for every integer durationSeconds in [1,7200], StartTimer succeeds on
\* every transport and the created timer is in the active set with
\* remainingSeconds = durationSeconds and status running.
C2_StartTimerCreates ==
    \A via \in Transports, name \in NameInputs, d \in ValidDurationSample :
        LET r == StartTimerHandler(via, activeTimers, timerHistory, name, d,
                                   nextId)
        IN  /\ r.ok /\ r.http = 200 /\ r.error = ""
            /\ Has(r.at, nextId)
            /\ Get(r.at, nextId).remainingSeconds = d
            /\ Get(r.at, nextId).durationSeconds = d
            /\ Get(r.at, nextId).status = "running"
            /\ r.th = timerHistory

\* a StartTimer request for 7200 seconds has just been answered with success
C2_Witness ==
    /\ last.op = "startTimer" /\ last.ok
    /\ Has(activeTimers, nextId - 1)
    /\ Get(activeTimers, nextId - 1).remainingSeconds = Num(MAX_DURATION)
    /\ Get(activeTimers, nextId - 1).status = "running"

\* the store a request leaves is the store it found
StoreUntouched(r) == r.at = activeTimers /\ r.th = timerHistory

\* C3: StartTimer with durationSeconds 0 and 7201 fails with an
\* invalid-duration error and creates no timer; with 1 and 7200 it succeeds.
C3_DurationBoundaries ==
    \A via \in Transports, name \in NameInputs :
        LET start(d) == StartTimerHandler(via, activeTimers, timerHistory,
                                          name, d, nextId)
        IN  /\ \A d \in { Num(0), Num(MAX_DURATION + 1) } :
                   /\ ~start(d).ok
                   /\ start(d).error # ""
                   /\ StoreUntouched(start(d))
            /\ \A d \in { Num(1), Num(MAX_DURATION) } :
                   /\ start(d).ok
                   /\ start(d).error = ""
                   /\ Has(start(d).at, nextId)
                   /\ Len(start(d).at) = Len(activeTimers) + 1

\* timers of 1 and of 7200 seconds were created, and a request for 7201
\* seconds has just been refused
C3_Witness ==
    /\ last.op = "startTimer" /\ ~last.ok
    /\ last.error = "Duration cannot exceed 7200 seconds (2 hours)"
    /\ \E i \in 1..Len(activeTimers) :
           activeTimers[i].durationSeconds = Num(1)
    /\ \E i \in 1..Len(activeTimers) :
           activeTimers[i].durationSeconds = Num(MAX_DURATION)

\* C4: on every transport a StartTimer request whose durationSeconds is
\* absent, or is not an integer in [1,7200], fails with an invalid-duration
\* error and leaves the active set and the history unchanged.
C4_InvalidDurationRejected ==
    [][ \A name \in NameInputs, d \in DurationInputs :
            ( /\ ~ValidDuration(d)
              /\ \/ PostToolsStartTimer(name, d)
                 \/ PostApiTimers(name, d)
                 \/ McpStartTimer(name, d) )
            => ( /\ ~last'.ok
                 /\ last'.error # ""
                 /\ UNCHANGED << activeTimers, timerHistory >> ) ]_vars

\* the timers of the active set other than id are what they were in at
OthersUnchanged(at, at2, id) ==
    /\ Len(at2) = Len(at)
    /\ \A i \in 1..Len(at) : at[i].id # id => at2[i] = at[i]

\* C5: pause on a paused or nonexistent timer returns false and changes
\* nothing; pause on a running timer returns true and sets its status to
\* paused, leaving its remainingSeconds and every other timer as they were.
C5_PauseFrame ==
    \A id \in 0..(MaxTimers + 1) :
        LET r == pauseTimer(activeTimers, timerHistory, id)
        IN  IF Has(activeTimers, id)
               /\ Get(activeTimers, id).status = "running"
            THEN /\ r.ok
                 /\ Get(r.at, id) =
                        [Get(activeTimers, id) EXCEPT !.status = "paused"]
                 /\ Get(r.at, id).remainingSeconds =
                        Get(activeTimers, id).remainingSeconds
                 /\ OthersUnchanged(activeTimers, r.at, id)
                 /\ r.th = timerHistory
            ELSE ~r.ok /\ StoreUntouched(r)

\* a pause has just succeeded: a timer that has counted down is paused with
\* what it had left, next to a running one
C5_Witness ==
    /\ last.op = "pause" /\ last.ok
    /\ \E i \in 1..Len(activeTimers) :
           /\ activeTimers[i].status = "paused"
           /\ activeTimers[i].remainingSeconds = Num(1)
           /\ activeTimers[i].durationSeconds = Num(2)
    /\ \E i \in 1..Len(activeTimers) : activeTimers[i].status = "running"

\* C6: resume on a running or nonexistent timer returns false and changes
\* nothing; resume on a paused timer returns true and sets its status to
\* running with remainingSeconds unchanged.
C6_ResumeFrame ==
    \A id \in 0..(MaxTimers + 1) :
        LET r == resumeTimer(activeTimers, timerHistory, id)
        IN  IF Has(activeTimers, id)
               /\ Get(activeTimers, id).status = "paused"
            THEN /\ r.ok
                 /\ Get(r.at, id) =
                        [Get(activeTimers, id) EXCEPT !.status = "running"]
                 /\ Get(r.at, id).remainingSeconds =
                        Get(activeTimers, id).remainingSeconds
                 /\ OthersUnchanged(activeTimers, r.at, id)
                 /\ r.th = timerHistory
            ELSE ~r.ok /\ StoreUntouched(r)

\* a resume has just succeeded on a timer that was paused part-way
C6_Witness ==
    /\ last.op = "resume" /\ last.ok
    /\ \E i \in 1..Len(activeTimers) :
           /\ activeTimers[i].status = "running"
           /\ activeTimers[i].remainingSeconds = Num(MAX_DURATION - 1)

\* th2 is th with exactly one entry appended
AppendsOne(th, th2) ==
    Len(th2) = Len(th) + 1 /\ SubSeq(th2, 1, Len(th)) = th

\* C7: stop on a running or paused timer returns true, removes it from the
\* active set and appends exactly one history entry for it, with status
\* stopped, completedAt set and the remainingSeconds the timer had.
C7_StopMovesToHistory ==
    \A id \in 0..(MaxTimers + 1) :
        ( Has(activeTimers, id)
          /\ Get(activeTimers, id).status \in {"running", "paused"} )
        => LET r == stopTimer(activeTimers, timerHistory, id, clock)
               t == Get(activeTimers, id)
               e == r.th[Len(r.th)]
           IN  /\ r.ok
               /\ ~Has(r.at, id)
               /\ Keys(r.at) = Keys(activeTimers) \ {id}
               /\ \A i \in 1..Len(r.at) :
                      r.at[i] = Get(activeTimers, r.at[i].id)
               /\ AppendsOne(timerHistory, r.th)
               /\ Cardinality(EntriesOf(r.th, id)) = 1
               /\ e.id = id
               /\ e.status = "stopped"
               /\ e.completedAt # NoTime
               /\ e.remainingSeconds = t.remainingSeconds
               /\ e.durationSeconds = t.durationSeconds
               /\ e.name = t.name

\* a stop has just succeeded on a timer that had 1 of its 2 seconds left
C7_Witness ==
    /\ last.op = "stop" /\ last.ok
    /\ Len(timerHistory) > 0
    /\ LET e == timerHistory[Len(timerHistory)]
       IN  /\ e.status = "stopped"
           /\ e.completedAt # NoTime
           /\ e.durationSeconds = Num(2)
           /\ e.remainingSeconds = Num(1)
           /\ ~Has(activeTimers, e.id)

\* C8: each tick on a running timer decrements remainingSeconds by exactly
\* 1; the timer is completed exactly on the tick that brings it to 0 and is
\* then in the history with remainingSeconds 0; a tick on a paused timer
\* returns false and changes nothing.
C8_TickDecrementsByOne ==
    [][ \A id \in IdInputs :
            ( UpdateTimerCall(id) /\ Has(activeTimers, id) )
            => LET t == Get(activeTimers, id)
                   left == Decrement(t.remainingSeconds)
               IN  IF t.status = "paused"
                   THEN ~last'.ok
                        /\ UNCHANGED << activeTimers, timerHistory >>
                   ELSE /\ last'.ok
                        /\ IF left = Num(0)
                           THEN /\ ~Has(activeTimers', id)
                                /\ AppendsOne(timerHistory, timerHistory')
                                /\ timerHistory'[Len(timerHistory')] =
                                       [t EXCEPT !.status = "completed",
                                                 !.remainingSeconds = Num(0),
                                                 !.completedAt = clock']
                           ELSE /\ Has(activeTimers', id)
                                /\ Get(activeTimers', id) =
                                       [t EXCEPT !.remainingSeconds = left]
                                /\ timerHistory' = timerHistory ]_vars

\* C9: the second of two stops on one id returns false and leaves the store
\* unchanged, so the history holds one entry for the id; pause, resume, stop
\* and tick whose precondition fails return false and change nothing.
C9_FailedOperationsAreNoOps ==
    \A id \in 0..(MaxTimers + 1) :
        LET at == activeTimers
            th == timerHistory
            status == IF Has(at, id) THEN Get(at, id).status ELSE "none"
            first == stopTimer(at, th, id, clock)
            second == stopTimer(first.at, first.th, id, clock)
        IN  /\ first.ok =>
                /\ ~second.ok
                /\ second.at = first.at
                /\ second.th = first.th
                /\ Cardinality(EntriesOf(second.th, id)) = 1
            /\ status # "running" =>
                pauseTimer(at, th, id) = Result(FALSE, at, th)
            /\ status # "paused" =>
                resumeTimer(at, th, id) = Result(FALSE, at, th)
            /\ status \notin {"running", "paused"} =>
                stopTimer(at, th, id, clock) = Result(FALSE, at, th)
            /\ ~( status = "running"
                  /\ GreaterThan(Get(at, id).remainingSeconds, 0) ) =>
                updateTimer(at, th, id, clock + 1) = Result(FALSE, at, th)

\* the only timer ever created was stopped, and a further stop has just
\* been answered with success = false
C9_Witness ==
    /\ last.op = "stop" /\ ~last.ok /\ last.http = 200
    /\ nextId = 2
    /\ activeTimers = << >>
    /\ Len(timerHistory) = 1
    /\ timerHistory[1].status = "stopped"

\* C10: in every interleaving of engine ticks and ControlTimer calls a timer
\* is never both advanced and stopped: an entry of the history is never
\* changed again and its timer never returns to the active set, a stop or a
\* tick of a finished timer returns false, a timer enters the history either
\* by a stop (with the remainingSeconds it had) or by a tick (completed), and
\* it has at most one entry there, stopped or completed.
C10_Step ==
    /\ \A i \in 1..Len(timerHistory) :
           i <= Len(timerHistory') /\ timerHistory'[i] = timerHistory[i]
    /\ \A id \in HistoryIds(timerHistory) :
           /\ ~Has(activeTimers', id)
           /\ ~stopTimer(activeTimers, timerHistory, id, clock).ok
           /\ ~updateTimer(activeTimers, timerHistory, id, clock + 1).ok
    /\ HistoryIds(timerHistory') \subseteq
           HistoryIds(timerHistory) \cup Keys(activeTimers)
    /\ \A id \in Keys(activeTimers) :
           /\ Cardinality(EntriesOf(timerHistory', id)) =
                  IF Has(activeTimers', id) THEN 0 ELSE 1
           /\ \A i \in EntriesOf(timerHistory', id) :
                  LET t == Get(activeTimers, id)
                      e == timerHistory'[i]
                  IN  /\ ~Has(activeTimers', id)
                      /\ \/ /\ e.status = "stopped"
                            /\ e.remainingSeconds = t.remainingSeconds
                            /\ last'.op = "stop" /\ last'.ok
                         \/ /\ e.status = "completed"
                            /\ t.status = "running"
                            /\ e.remainingSeconds = Num(0)
                            /\ last'.op \in {"updateTimer", "loop"}

C10_TickStopSerialized == [][C10_Step]_vars

\* one timer was stopped and the other was completed by a tick, in this
\* order, and the last tick found nothing left to advance
C10_Witness ==
    /\ Len(timerHistory) = 2
    /\ timerHistory[1].status = "stopped"
    /\ timerHistory[2].status = "completed"
    /\ activeTimers = << >>
    /\ last.op = "updateTimer" /\ ~last.ok

\* C11: starting a timer with durationSeconds d answers minutesLeft = d div 60
\* and secondsLeft = d mod 60 (5 and 0 for 300); with no pause or stop the
\* timer is still active before the d-th pass of the update loop, with one
\* second less after each pass, and after exactly d passes it is in the
\* history as completed and out of the active set.  The timers of the
\* scenario are started at clock 1, so clock - 1 passes have run since.
C11_EndToEnd ==
    /\ \A d \in EndToEndDurations :
           LET r == startTimer(activeTimers, DefaultName(NoName), Num(d),
                               nextId)
           IN  /\ r.ok
               /\ r.minutesLeft = Num(d \div 60)
               /\ r.secondsLeft = Num(d % 60)
               /\ d = 300 => r.minutesLeft = Num(5) /\ r.secondsLeft = Num(0)
    /\ \A id \in Created :
           (id \in Keys(activeTimers)) # (id \in HistoryIds(timerHistory))
    /\ \A i \in 1..Len(activeTimers) :
           LET t == activeTimers[i]
               d == t.durationSeconds.i
           IN  /\ clock - 1 < d
               /\ t.status = "running"
               /\ t.remainingSeconds = Num(d - (clock - 1))
    /\ \A i \in 1..Len(timerHistory) :
           LET e == timerHistory[i]
               d == e.durationSeconds.i
           IN  /\ clock - 1 >= d
               /\ e.status = "completed"
               /\ e.completedAt = d + 1
               /\ Cardinality(EntriesOf(timerHistory, e.id)) = 1

\* the 300th pass of the update loop has just completed a timer of 300
\* seconds, the last one that was active
C11_Witness ==
    /\ last.op = "loop"
    /\ clock = 301
    /\ activeTimers = << >>
    /\ \E i \in 1..Len(timerHistory) :
           /\ timerHistory[i].durationSeconds = Num(300)
           /\ timerHistory[i].status = "completed"
           /\ timerHistory[i].completedAt = 301

\* C12: after two timers were started and the first was paused, no tick
\* having completed either, GetTimerStatus reports two active entries, exactly
\* one running and one paused, and an empty history.  Evaluated wherever two
\* timers have been started and both are still running: the pause of the
\* first, over any transport, followed by getTimerStatus.
C12_TwoTimersOnePaused ==
    ( /\ nextId = 3
      /\ timerHistory = << >>
      /\ \A i \in 1..Len(activeTimers) : activeTimers[i].status = "running" )
    => \A via \in Transports :
           LET r == ControlTimerHandler(via, activeTimers, timerHistory,
                                        activeTimers[1].id, "pause", clock)
               s == getTimerStatus(r.at, r.th)
               with(status) == { i \in 1..Len(s.activeTimers) :
                                   s.activeTimers[i].status = status }
           IN  /\ r.ok
               /\ Len(s.activeTimers) = 2
               /\ Cardinality(with("running")) = 1
               /\ Cardinality(with("paused")) = 1
               /\ s.activeTimers[1].status = "paused"
               /\ s.history = << >>

\* two timers were started, a pass of the update loop ran, and the pause of
\* the first has just succeeded
C12_Witness ==
    /\ last.op = "pause" /\ last.ok
    /\ nextId = 3
    /\ timerHistory = << >>
    /\ Len(activeTimers) = 2
    /\ activeTimers[1].id = 1 /\ activeTimers[1].status = "paused"
    /\ activeTimers[2].status = "running"
    /\ activeTimers[2].remainingSeconds = Num(MAX_DURATION - 1)

\* a <= b on numbers; false when either side is undefined (NaN)
LessOrEqual(a, b) ==
    /\ a.k = "number" /\ b.k = "number"
    /\ 2 * a.i + a.f <= 2 * b.i + b.f

\* 0 <= remainingSeconds <= durationSeconds
WithinDuration(t) ==
    /\ LessOrEqual(Num(0), t.remainingSeconds)
    /\ LessOrEqual(t.remainingSeconds, t.durationSeconds)

\* a timer that enters the active set starts with remainingSeconds =
\* durationSeconds, and the remainingSeconds of a timer of the store, active
\* or moved to the history, is at most what it was
C13_Step ==
    /\ \A id \in Keys(activeTimers') \ Keys(activeTimers) :
           Get(activeTimers', id).remainingSeconds =
               Get(activeTimers', id).durationSeconds
    /\ \A id \in Keys(activeTimers) :
           /\ Has(activeTimers', id) =>
                  LessOrEqual(Get(activeTimers', id).remainingSeconds,
                              Get(activeTimers, id).remainingSeconds)
           /\ \A i \in EntriesOf(timerHistory', id) :
                  LessOrEqual(timerHistory'[i].remainingSeconds,
                              Get(activeTimers, id).remainingSeconds)

\* C13: for every timer of the store, remainingSeconds starts equal to
\* durationSeconds, never increases, and 0 <= remainingSeconds <=
\* durationSeconds holds in every reachable state.
C13_RemainingWithinDuration ==
    /\ [] ( /\ \A i \in 1..Len(activeTimers) :
                   WithinDuration(activeTimers[i])
            /\ \A i \in 1..Len(timerHistory) :
                   WithinDuration(timerHistory[i]) )
    /\ [][C13_Step]_vars

\* the step is a tick: a call of updateTimer or a pass of the update loop
IsTick == last'.op \in {"updateTimer", "loop"} /\ clock' = clock + 1

\* the step is a ControlTimer request with action stop that succeeded
IsStop ==
    /\ \/ \E id \in IdInputs : PostToolsControlTimer(id, "stop")
       \/ \E id \in IdInputs : PostApiTimersControl(id, "stop")
       \/ \E id \in IdInputs : McpControlTimer(id, "stop")
    /\ last'.ok

\* C14: a timer becomes completed only by a tick that takes its
\* remainingSeconds to 0 while it is running, and stopped only by an explicit
\* stop while it is running or paused; there is no other transition into
\* completed or stopped, and neither status is ever left.
C14_Step ==
    /\ \A i \in 1..Len(activeTimers') :
           activeTimers'[i].status \in {"running", "paused"}
    /\ \A i \in 1..Len(timerHistory') :
           LET e == timerHistory'[i]
           IN  IF i <= Len(timerHistory)
               THEN /\ e.status = timerHistory[i].status
                    /\ e.id = timerHistory[i].id
                    /\ ~Has(activeTimers', e.id)
               ELSE /\ Has(activeTimers, e.id)
                    /\ ~Has(activeTimers', e.id)
                    /\ LET t == Get(activeTimers, e.id)
                       IN  CASE e.status = "completed" ->
                                  /\ IsTick
                                  /\ t.status = "running"
                                  /\ GreaterThan(t.remainingSeconds, 0)
                                  /\ e.remainingSeconds = Num(0)
                             [] e.status = "stopped" ->
                                  /\ IsStop
                                  /\ t.status \in {"running", "paused"}
                                  /\ e.remainingSeconds = t.remainingSeconds
                             [] OTHER -> FALSE
    /\ Len(timerHistory') >= Len(timerHistory)

C14_TerminalTransitions == [][C14_Step]_vars

\* a timer stopped while paused with 1 of its 2 seconds left, and another
\* that a pass of the update loop has just completed
C14_Witness ==
    /\ last.op = "loop"
    /\ Len(timerHistory) = 2
    /\ timerHistory[1].status = "stopped"
    /\ timerHistory[1].remainingSeconds = Num(1)
    /\ timerHistory[1].durationSeconds = Num(2)
    /\ timerHistory[2].status = "completed"
    /\ timerHistory[2].remainingSeconds = Num(0)
    /\ timerHistory[2].completedAt = clock

\* an entry already in the history keeps its completedAt, and an entry that
\* enters it is stamped in that step, being without a stamp until then
C15_Step ==
    /\ \A i \in 1..Len(timerHistory) :
           /\ i <= Len(timerHistory')
           /\ timerHistory'[i].id = timerHistory[i].id
           /\ timerHistory'[i].completedAt = timerHistory[i].completedAt
    /\ \A i \in (Len(timerHistory) + 1)..Len(timerHistory') :
           /\ timerHistory'[i].completedAt = clock'
           /\ Has(activeTimers, timerHistory'[i].id)
           /\ Get(activeTimers, timerHistory'[i].id).completedAt = NoTime
           /\ ~Has(activeTimers', timerHistory'[i].id)

\* C15: completedAt is set exactly once per timer, in the step in which the
\* timer leaves the active set: every active timer has none, every history
\* entry has one, and it never changes afterwards.
C15_CompletedAtOnce ==
    /\ [] ( /\ \A i \in 1..Len(activeTimers) :
                   activeTimers[i].completedAt = NoTime
            /\ \A i \in 1..Len(timerHistory) :
                   timerHistory[i].completedAt # NoTime )
    /\ [][C15_Step]_vars

\* a timer stopped at time 1 is in the history, a later stop at time 3 has
\* just filed the other timer, and the first stamp is still 1
C15_Witness ==
    /\ last.op = "stop" /\ last.ok
    /\ clock = 3
    /\ Len(timerHistory) = 2
    /\ timerHistory[1].completedAt = 1
    /\ timerHistory[2].completedAt = 3

\* C16: the history log is append-only: no operation removes, reorders or
\* modifies an entry, so the log of a state is a prefix of the log of every
\* later state.
C16_HistoryAppendOnly ==
    [][ /\ Len(timerHistory') >= Len(timerHistory)
        /\ SubSeq(timerHistory', 1, Len(timerHistory)) = timerHistory ]_vars

\* two timers were completed by two separate ticks: the second entry was
\* appended behind the first
C16_Witness ==
    /\ last.op = "updateTimer" /\ last.ok
    /\ Len(timerHistory) = 2
    /\ timerHistory[1].status = "completed"
    /\ timerHistory[1].completedAt = 2
    /\ timerHistory[2].status = "completed"
    /\ timerHistory[2].completedAt = 3

\* C17: the values the store hands out (the active-set view, the history
\* view, the created timer) are copies: a caller's write to one of them
\* changes neither the active set nor the history.
C17_ReturnedValuesAreCopies ==
    /\ \A value \in { getActiveTimers, getTimerHistory }, write \in Writes :
           LET r == WriteThrough(value, activeTimers, timerHistory, write)
           IN  r.at = activeTimers /\ r.th = timerHistory
    /\ \A d \in ValidDurationSample :
           LET at2 == createTimer(activeTimers, Label("Timer"), d, nextId)
               r == createOptimisticTimer(activeTimers, timerHistory,
                                          Label("Timer"), d, nextId)
           IN  r.at = at2 /\ r.th = timerHistory

\* the action values of a request that are present and are no verb
UnknownActions == ActionInputs \ (Actions \cup {NoAction})

\* C18: on every transport a ControlTimer request whose action is not one of
\* pause, resume, stop fails with an invalid-action error and leaves the
\* active set and the history unchanged.
C18_UnknownActionRejected ==
    [][ \A timerId \in TimerIds, action \in UnknownActions :
            ( \/ PostToolsControlTimer(timerId, action)
              \/ PostApiTimersControl(timerId, action)
              \/ McpControlTimer(timerId, action) )
            => ( /\ ~last'.ok
                 /\ last'.error # ""
                 /\ UNCHANGED << activeTimers, timerHistory >> ) ]_vars

\* the request fails validation: the duration is absent or outside
\* [1, 7200]; the timerId or the action is missing; the action is no verb
InvalidStart(d) == ~ValidDuration(d)
InvalidControl(timerId, action) == timerId = NoId \/ action \notin Actions

\* C19: every StartTimer or ControlTimer HTTP request that fails validation
\* is answered with status 400, and every logically successful one with 200.
C19_StatusCodes ==
    [][ /\ \A name \in NameInputs, d \in DurationInputs :
               ( PostToolsStartTimer(name, d) \/ PostApiTimers(name, d) )
               => /\ InvalidStart(d) => last'.http = 400
                  /\ last'.ok => last'.http = 200
        /\ \A timerId \in IdInputs, action \in ActionInputs :
               ( \/ PostToolsControlTimer(timerId, action)
                 \/ PostApiTimersControl(timerId, action) )
               => /\ InvalidControl(timerId, action) => last'.http = 400
                  /\ last'.ok => last'.http = 200 ]_vars

\* the last answer is a failure response: a request refused by its route, or
\* a StartTimer request refused inside startTimer
FailureResponse ==
    \/ last.http = 400
    \/ last.op = "startTimer" /\ ~last.ok

\* C20: every failure response is a non-empty envelope that carries both a
\* human-readable message and a timestamp.
C20_FailureEnvelope ==
    FailureResponse => last.error # "" /\ last.timestamp

\* the arguments a tools/call may carry
ArgsInputs ==
    [ name : NameInputs, durationSeconds : DurationInputs,
      timerId : IdInputs, action : ActionInputs ]

\* a request the claim speaks of: a method outside the five, or a
\* tools/call that names a tool the timer server does not have
UnknownRequest(method, tool) ==
    \/ method \notin McpMethods
    \/ method = "tools/call" /\ tool \notin McpTools

\* C21: POST /mcp with a method other than initialize, tools/list,
\* resources/list, resources/read and tools/call, or with a tools/call of an
\* unknown tool, returns a JSON-RPC error with code -32601 under HTTP status
\* 200 and changes no timer state.
C21_MethodNotFound ==
    \A method \in MethodInputs, tool \in ToolInputs :
        UnknownRequest(method, tool) =>
            /\ \A uri \in UriInputs, args \in ArgsInputs :
                   LET r == handleMcpRequest(method, tool, uri, args,
                                             activeTimers, timerHistory,
                                             nextId, clock)
                   IN  /\ r.code = MethodNotFound
                       /\ r.http = 200
                       /\ StoreUntouched(r)
            /\ LET r == topMoversMcp(method, tool, activeTimers,
                                     timerHistory)
               IN  /\ r.code # 0 => r.code = MethodNotFound /\ r.http = 200
                   /\ StoreUntouched(r)

\* the name of the timer a StartTimer request with this name creates, on
\* transport via, in the present store
CreatedName(via, name) ==
    LET r == StartTimerHandler(via, activeTimers, timerHistory, name, Num(1),
                               nextId)
    IN  Get(r.at, nextId).name

\* C22 as stated: with name omitted or blank the created timer is named
\* "Timer N", N = active count + 1, on every transport.
C22_FallbackName ==
    \A via \in Transports, name \in { NoName, Blank } :
        CreatedName(via, name) = TimerN(Len(activeTimers) + 1)

\* C22 amended: with an empty name the created timer is named "Timer N",
\* N = active count + 1; with name omitted it is named "Timer"; a given name
\* is kept; on every transport.
C22_FallbackNameAmended ==
    \A via \in Transports :
        /\ CreatedName(via, Blank) = TimerN(Len(activeTimers) + 1)
        /\ CreatedName(via, NoName) = Label("Timer")
        /\ CreatedName(via, Label("Coffee Break")) = Label("Coffee Break")

\* a first timer was started without a name and a second one with an empty
\* name: they are "Timer" and "Timer 2"
C22_Witness ==
    /\ last.op = "startTimer" /\ last.ok
    /\ Len(activeTimers) = 2
    /\ activeTimers[1].name = Label("Timer")
    /\ activeTimers[2].name = TimerN(2)

\* ------------------------------------------------------ widget properties
\* a step in which syncWithServer reconciles the answer m
IsSync(m) == m \in net /\ m.kind = "sync" /\ m \notin net'

\* the entries of history th for id that have the status
EntriesWith(th, id, status) ==
    { i \in EntriesOf(th, id) : th[i].status = status }

\* C23: when a sync finds that the fetched active set lacks a timer X the
\* widget holds as running, and the local history has no entry for X, then
\* after the sync X is absent from the local active set and the local
\* history holds one completed entry for X.
C23_GainStep ==
    \A m \in net : IsSync(m) =>
        \A i \in 1..Len(localTimers) :
            LET X == localTimers[i]
            IN  /\ ~Has(m.data.activeTimers, X.id)
                /\ X.status = "running"
                /\ EntriesOf(localHistory, X.id) = {}
                => /\ ~Has(localTimers', X.id)
                   /\ Cardinality(EntriesWith(localHistory', X.id,
                                              "completed")) = 1
C23_GainsOneCompleted == [][C23_GainStep]_vars

\* What the sync does: X is absent from the local active set afterwards; if
\* X was running, the local history, which the sync replaces by the fetched
\* history, holds one completed entry for X more than the fetched history;
\* if X was paused it holds no entry more.
C23_Step ==
    \A m \in net : IsSync(m) =>
        \A i \in 1..Len(localTimers) :
            LET X == localTimers[i]
                gain == IF X.status = "running" THEN 1 ELSE 0
            IN  ~Has(m.data.activeTimers, X.id) =>
                    /\ ~Has(localTimers', X.id)
                    /\ Cardinality(EntriesWith(localHistory', X.id,
                                               "completed"))
                       = Cardinality(EntriesWith(m.data.history, X.id,
                                                 "completed")) + gain
                    /\ Cardinality(EntriesOf(localHistory', X.id))
                       = Cardinality(EntriesOf(m.data.history, X.id)) + gain
C23_AbsentTimerCompleted == [][C23_Step]_vars

\* a sync has found a timer the server had stopped still running in the
\* widget: the local history holds the server's stopped entry and the
\* widget's completed entry
C23_Witness ==
    \E id \in TimerIds :
        /\ ~Has(localTimers, id)
        /\ Cardinality(EntriesWith(localHistory, id, "stopped")) = 1
        /\ Cardinality(EntriesWith(localHistory, id, "completed")) = 1
        /\ localHistory[Len(localHistory)].id = id
        /\ localHistory[Len(localHistory)].status = "completed"

\* C24: no timer id has the completion notification fired for it more than
\* once, over any interleaving of the local ticks and the syncs.
C24_NotifiedOnce == \A id \in WidgetIds : notified[id] <= 1

\* C25: after a sync has reconciled a fetched answer, the local active set
\* holds the ids of the fetched active set, each once, and for each id the
\* fetched remainingSeconds and status, whatever the widget held before.
C25_Step ==
    \A m \in net : IsSync(m) =>
        LET fetched == m.data.activeTimers
        IN  /\ Keys(localTimers') = Keys(fetched)
            /\ Len(localTimers') = Len(fetched)
            /\ \A id \in Keys(fetched) :
                   /\ Get(localTimers', id).remainingSeconds
                      = Get(fetched, id).remainingSeconds
                   /\ Get(localTimers', id).status = Get(fetched, id).status
C25_LastFetchWins == [][C25_Step]_vars

\* a sync has removed a local-only timer, silently, and left the widget with
\* the timer of the server
C25_Witness ==
    /\ nextLocalId > 1
    /\ ~Has(localTimers, LocalId(1))
    /\ notified[LocalId(1)] = 0
    /\ EntriesOf(localHistory, LocalId(1)) = {}
    /\ timerPresets = "server"
    /\ Len(localTimers) = 1
    /\ Len(activeTimers) = 1
    /\ localTimers[1].id = activeTimers[1].id
    /\ localTimers[1].status = activeTimers[1].status
    /\ localTimers[1].remainingSeconds = activeTimers[1].remainingSeconds
    /\ net = {}

\* C26: a sync that reconciles a fetched answer renders only if it changed
\* the local active set, the history or the presets; when all three are as
\* they were, it does not render.
C26_Step ==
    \A m \in net :
        (/\ IsSync(m)
         /\ localTimers' = localTimers
         /\ localHistory' = localHistory
         /\ timerPresets' = timerPresets) => ~ui'.rendered
C26_RenderOnlyOnChange == [][C26_Step]_vars

\* C27: one pass of the update loop gives one tick to every timer that was
\* running when the pass began and none to a paused one, also when timers
\* are deleted during the pass: a running timer with r > 1 seconds is active
\* and running with r - 1, one with r = 1 is out of the active set and has
\* its one history entry, completed, and a paused timer is as it was.
C27_Step ==
    TimerUpdateLoop =>
        \A i \in 1..Len(activeTimers) :
            LET t == activeTimers[i]
                r == t.remainingSeconds
            IN  /\ t.status = "running" /\ IsInteger(r) /\ r.i > 1
                   => /\ Has(activeTimers', t.id)
                      /\ Get(activeTimers', t.id)
                         = [t EXCEPT !.remainingSeconds = Num(r.i - 1)]
                /\ t.status = "running" /\ r = Num(1)
                   => /\ ~Has(activeTimers', t.id)
                      /\ Cardinality(EntriesOf(timerHistory', t.id)) = 1
                      /\ \A j \in EntriesOf(timerHistory', t.id) :
                             /\ timerHistory'[j].status = "completed"
                             /\ timerHistory'[j].remainingSeconds = Num(0)
                /\ t.status = "paused"
                   => /\ Has(activeTimers', t.id)
                      /\ Get(activeTimers', t.id) = t
C27_OneTickPerPass == [][C27_Step]_vars

\* one pass has completed two timers: both are in the history with the time
\* of the same pass
C27_Witness ==
    /\ Len(timerHistory) = 2
    /\ activeTimers = << >>
    /\ \A j \in 1..2 : timerHistory[j].status = "completed"
    /\ timerHistory[1].completedAt = timerHistory[2].completedAt
    /\ timerHistory[1].id # timerHistory[2].id

\* the controlTimer calls that await their answer
Controls(msgs) == { m \in msgs : m.kind = "control" }

\* a step in which controlTimer goes on behind its await with the answer m
IsControl(m) ==
    /\ m \in Controls(net)
    /\ Cardinality(Controls(net')) < Cardinality(Controls(net))
    /\ ~\E n \in Controls(net') :
           /\ n.timerId = m.timerId
           /\ n.action = m.action
           /\ n.ok = m.ok

\* the local active set and history after the action on the timer held
\* under id
Applied(local, history, id, action) ==
    LET t == Get(local, id)
    IN  CASE action = "pause" ->
                 << Put(local, [t EXCEPT !.status = "paused"]), history >>
          [] action = "resume" ->
                 << Put(local, [t EXCEPT !.status = "running"]), history >>
          [] action = "stop" ->
                 << Delete(local, id), Append(history, StoppedEntry(t)) >>

\* C28: a control action sends one request; when the answer is OK the
\* widget changes nothing locally; when the call fails the widget sends no
\* second request and applies the action once to the timer that the local
\* active set holds under the id.
C28_Step ==
    /\ Cardinality(Controls(net')) > Cardinality(Controls(net))
       => /\ Cardinality(Controls(net')) = Cardinality(Controls(net)) + 1
          /\ ui'.requests = 1
          /\ << localTimers', localHistory' >> = << localTimers, localHistory >>
    /\ \A m \in net : IsControl(m) =>
           /\ ui'.requests = 0
           /\ m.ok => << localTimers', localHistory' >>
                      = << localTimers, localHistory >>
           /\ ~m.ok /\ Has(localTimers, m.timerId)
              => << localTimers', localHistory' >>
                 = Applied(localTimers, localHistory, m.timerId, m.action)
C28_ControlOnceThenFallback == [][C28_Step]_vars

\* a step in which callTimer goes on behind its await with the answer m
IsCreate(m) == m \in net /\ m.kind = "create" /\ m \notin net'

\* C29: a create request leaves the local active set with one timer for it
\* and the other timers as they were: under the id the server gave when the
\* server call succeeded, and only when the call failed a new local-only
\* timer, running, with remainingSeconds the requested duration; the local
\* tick loop runs afterwards in both cases.
C29_Step ==
    \A m \in net : IsCreate(m) =>
        \E id \in Keys(localTimers') :
            LET t == Get(localTimers', id)
            IN  /\ Keys(localTimers') = Keys(localTimers) \cup {id}
                /\ Len(localTimers') = Cardinality(Keys(localTimers'))
                /\ \A o \in Keys(localTimers) \ {id} :
                       Get(localTimers', o) = Get(localTimers, o)
                /\ t.status = "running"
                /\ IF m.ok
                   THEN /\ id = m.timer.id
                        /\ id \in Created
                        /\ id \notin LocalIds
                   ELSE /\ id \in LocalIds
                        /\ id \notin Keys(localTimers)
                        /\ t.remainingSeconds = m.durationSeconds
                /\ updateInterval'
C29_CreateAddsOne == [][C29_Step]_vars

\* the widget holds a timer of the server and a local-only timer, both from
\* create requests, and its loop runs
C29_Witness ==
    /\ \E id \in Created : Has(localTimers, id)
    /\ Has(localTimers, LocalId(1))
    /\ Get(localTimers, LocalId(1)).status = "running"
    /\ updateInterval
    /\ ~\E m \in net : m.kind = "create"

\* C30: a firing of the local tick loop takes one second, not below 0, from
\* every locally running timer and leaves a paused one as it was; a timer
\* that reaches 0 leaves the local active set, gets one completed entry
\* appended to the local history and has the notification fired; nothing
\* else is appended.
C30_Step ==
    LocalTick =>
        /\ \A i \in 1..Len(localTimers) :
               LET t == localTimers[i]
                   r == t.remainingSeconds
                   entries(h) == Cardinality(EntriesWith(h, t.id, "completed"))
               IN  /\ t.status = "running" /\ IsInteger(r) /\ r.i > 1
                      => /\ Has(localTimers', t.id)
                         /\ Get(localTimers', t.id)
                            = [t EXCEPT !.remainingSeconds = Num(r.i - 1)]
                         /\ notified'[t.id] = notified[t.id]
                   /\ t.status = "running" /\ IsInteger(r) /\ r.i <= 1
                      => /\ ~Has(localTimers', t.id)
                         /\ entries(localHistory') = entries(localHistory) + 1
                         /\ notified'[t.id] = notified[t.id] + 1
                            \/ notified[t.id] = MaxSounds
                   /\ t.status = "paused"
                      => /\ Has(localTimers', t.id)
                         /\ Get(localTimers', t.id) = t
                         /\ notified'[t.id] = notified[t.id]
        /\ Len(localHistory') = Len(localHistory)
               + Len(localTimers) - Len(localTimers')
        /\ SubSeq(localHistory', 1, Len(localHistory)) = localHistory
        /\ Keys(localTimers') \subseteq Keys(localTimers)
C30_LocalTick == [][C30_Step]_vars

\* the local loop alone, no sync having been reconciled, has counted a
\* local-only timer down to 0: entry, notification, loop stopped
C30_Witness ==
    /\ timerPresets = "widget"
    /\ localTimers = << >>
    /\ ~updateInterval
    /\ notified[LocalId(1)] = 1
    /\ Cardinality(EntriesWith(localHistory, LocalId(1), "completed")) = 1

\* C31: when a local tick or a local control action leaves the local active
\* set empty, the handle of the tick loop is cleared and its interval is no
\* longer live; the handle of the sync loop is always set and its interval
\* always live.
C31_Step ==
    /\ \/ LocalTick
       \/ \E m \in net : IsControl(m) /\ ~m.ok
    /\ localTimers' = << >>
    => /\ ~updateInterval'
       /\ intervals'.update = 0
C31_LoopCancelled ==
    [](syncInterval /\ intervals.sync = 1) /\ [][C31_Step]_vars

\* a local stop, no sync having been reconciled, has emptied the local
\* active set: the tick loop is cleared, the sync loop goes on
C31_Witness ==
    /\ timerPresets = "widget"
    /\ localTimers = << >>
    /\ Cardinality(EntriesWith(localHistory, LocalId(1), "stopped")) = 1
    /\ ~updateInterval
    /\ intervals = [ update |-> 0, sync |-> 1 ]
    /\ syncInterval

\* C33: a sync whose fetch fails leaves the local active set, the history
\* and the presets as they were.
C33_Step ==
    SyncFails =>
        /\ localTimers' = localTimers
        /\ localHistory' = localHistory
        /\ timerPresets' = timerPresets
C33_FailedSyncChangesNothing == [][C33_Step]_vars

\* a sync has failed while the widget holds a timer and a history entry
C33_Witness ==
    /\ ui = [ rendered |-> FALSE, requests |-> 1 ]
    /\ net = {}
    /\ localTimers # << >>
    /\ localHistory # << >>

\* C34: a sync fires the completion notification for a timer, and writes
\* its completed entry, only if the timer reached 0 on the server: the
\* server's history holds it as completed.
C34_Step ==
    \A m \in net : IsSync(m) =>
        \A id \in WidgetIds :
            notified'[id] > notified[id]
            => EntriesWith(timerHistory, id, "completed") # {}
C34_CompletedOnlyAtZero == [][C34_Step]_vars

\* C36: whenever the local active set holds a running timer, the local tick
\* loop is active.
C36_RunningImpliesLoop ==
    (\E i \in 1..Len(localTimers) : localTimers[i].status = "running")
        => updateInterval /\ intervals.update > 0

\* C37: no timer id has more than one entry in the local history.
C37_OneEntryPerId ==
    \A id \in WidgetIds : Cardinality(EntriesOf(localHistory, id)) <= 1

\* C40: at most one tick interval and at most one sync interval are live,
\* the tick interval exactly when its handle is set; the startUpdateLoop of
\* the callTool widget, which clears before it sets, keeps it so.
C40_OneIntervalEach ==
    /\ intervals.update <= 1
    /\ intervals.sync <= 1
    /\ updateInterval <=> intervals.update = 1
    /\ RestartUpdateLoop(updateInterval, intervals).update = 1

\* two create requests have been answered and one tick interval is live
C40_Witness ==
    /\ Len(localTimers) = 2
    /\ updateInterval
    /\ intervals.update = 1

\* C35: the local state is never overwritten by a snapshot older than one
\* already reconciled: the answer of a sync request that was issued before
\* the request whose answer was reconciled last changes neither the local
\* active set nor the local history.
C35_Step ==
    \A m \in net :
        m.kind = "sync" /\ m \notin net' /\ m.issued < order.applied
        => localTimers' = localTimers /\ localHistory' = localHistory
C35_SyncInOrder == [][C35_Step]_vars

\* C32: with the update loop firing fairly, a running timer is eventually
\* paused, stopped, or in the history as completed; so one that is never
\* paused or stopped is eventually completed and in the history.
Running(id) ==
    Has(activeTimers, id) /\ Get(activeTimers, id).status = "running"
Settled(id) ==
    \/ Has(activeTimers, id) /\ Get(activeTimers, id).status = "paused"
    \/ /\ ~Has(activeTimers, id)
       /\ \E j \in EntriesOf(timerHistory, id) :
              timerHistory[j].status \in { "completed", "stopped" }
C32_EventuallyCompleted ==
    \A id \in TimerIds : Running(id) ~> Settled(id)

\* C38: every timer in the local active set is running or paused.
C38_ActiveStatuses ==
    \A i \in 1..Len(localTimers) :
        localTimers[i].status \in { "running", "paused" }

\* C39: window.timerApp.create with an id that is not active leaves one new
\* timer under that id, with remainingSeconds the duration given, and every
\* other active timer under its id as it was.
C39_Step ==
    \A id \in ExternalIds, name \in BridgeNames, d \in BridgeDurations :
        TimerAppCreate(id, name, d) /\ ~Has(localTimers, id)
        => /\ Keys(localTimers') = Keys(localTimers) \cup {id}
           /\ Len(localTimers') = Len(localTimers) + 1
           /\ Get(localTimers', id).remainingSeconds = d
           /\ \A o \in Keys(localTimers) :
                  Get(localTimers', o) = Get(localTimers, o)
C39_CreateUnderGivenId == [][C39_Step]_vars

====
